---------------------------- MODULE Spec2Model ----------------------------
(***************************************************************************)
(* Zone-action model of the OHS Digital Microscope.                        *)
(*                                                                         *)
(* The student view renders one clickable div per stored zone record; its  *)
(* click handler (part_000:84-110) resolves the record to a banner, a      *)
(* quiz, a targeted navigation or a sequential advancement.  A quiz is run *)
(* by showQuizModal (part_000:495-605) on a fixed set of DOM nodes.        *)
(*                                                                         *)
(* JavaScript values are modelled as records of one shape                  *)
(*     [t : type tag, n : number payload, s : string payload]              *)
(* Numbers are stored in halves (n = 2 * value) so that the non-integer    *)
(* JSON numbers -0.5, 0.5, 1.5 ... are representable; strings are          *)
(* sequences of tokens (single characters where the string is parsed).     *)
(***************************************************************************)
EXTENDS Integers, Sequences, FiniteSets, TLC

-----------------------------------------------------------------------------
(* Bounds *)

\* largest number of views of the loaded lesson (currentLessonViews.length)
MaxViews == 2

\* deepest nesting of the zone div inside clickable parents
MaxNesting == 1

\* the evaluation counter of a session saturates here
MaxEvals == 2

\* longest zone list that zones are deleted from
MaxZones == 3

\* number of image slots (column triples) of a row of the lesson sheet
MaxImages == 2

-----------------------------------------------------------------------------
(* JavaScript values *)

Undefined == [t |-> "undefined", n |-> 0, s |-> <<>>]

Null == [t |-> "null", n |-> 0, s |-> <<>>]

NaN == [t |-> "NaN", n |-> 0, s |-> <<>>]

Bool(b) == [t |-> "boolean", n |-> IF b THEN 1 ELSE 0, s |-> <<>>]

\* a number given in halves: Num(3) is 1.5, Num(-1) is -0.5
Num(h) == [t |-> "number", n |-> h, s |-> <<>>]

\* the integer i
IntNum(i) == Num(2 * i)

\* a string given as its sequence of tokens
Str(cs) == [t |-> "string", n |-> 0, s |-> cs]

\* a string that is never parsed, kept as one token ("" is Str(<<>>))
Text(w) == Str(<<w>>)

EmptyString == Str(<<>>)

\* ToBoolean: undefined, null, NaN, false, 0 and "" are falsy
Truthy(v) ==
    CASE v.t \in {"undefined", "null", "NaN"} -> FALSE
      [] v.t = "boolean" -> v.n = 1
      [] v.t = "number" -> v.n # 0
      [] v.t = "string" -> v.s # <<>>

IsInteger(v) == v.t = "number" /\ v.n % 2 = 0

\* the integer an integer-valued number denotes
IntOf(v) == v.n \div 2

Digits == {"0", "1", "2", "3", "4", "5", "6", "7", "8", "9"}

DigitVal(c) ==
    CASE c = "0" -> 0 [] c = "1" -> 1 [] c = "2" -> 2 [] c = "3" -> 3
      [] c = "4" -> 4 [] c = "5" -> 5 [] c = "6" -> 6 [] c = "7" -> 7
      [] c = "8" -> 8 [] c = "9" -> 9

\* the digit that denotes i
DigitChar(i) == CHOOSE c \in Digits : DigitVal(c) = i

\* number of leading whitespace characters of cs from position i
RECURSIVE SkipWhite(_, _)
SkipWhite(cs, i) ==
    IF i <= Len(cs) /\ cs[i] = " " THEN SkipWhite(cs, i + 1) ELSE i

\* value of the longest run of decimal digits of cs starting at i
\* (acc is the value read so far)
RECURSIVE ReadDigits(_, _, _)
ReadDigits(cs, i, acc) ==
    IF i <= Len(cs) /\ cs[i] \in Digits
    THEN ReadDigits(cs, i + 1, 10 * acc + DigitVal(cs[i]))
    ELSE acc

\* parseInt of a string: optional whitespace, optional sign, then the
\* longest prefix of digits; NaN when there is no digit; whatever follows
\* the digits is ignored
ParseIntString(cs) ==
    LET i == SkipWhite(cs, 1)
        signed == i <= Len(cs) /\ cs[i] \in {"-", "+"}
        j == IF signed THEN i + 1 ELSE i
        mag == ReadDigits(cs, j, 0)
    IN  IF j <= Len(cs) /\ cs[j] \in Digits
        THEN IntNum(IF signed /\ cs[i] = "-" THEN 0 - mag ELSE mag)
        ELSE NaN

\* parseInt(v): v is converted to a string and parsed.  A number prints as
\* its decimal expansion, so its integer part (truncated towards zero) is
\* read; undefined, null, NaN and booleans print as words and give NaN.
ParseInt(v) ==
    CASE v.t = "string" -> ParseIntString(v.s)
      [] v.t = "number" ->
            IntNum(IF v.n >= 0 THEN v.n \div 2 ELSE 0 - ((0 - v.n) \div 2))
      [] OTHER -> NaN

\* a || b
OrElse(a, b) == IF Truthy(a) THEN a ELSE b

-----------------------------------------------------------------------------
(* Stored zone records (part_000:10-20, 326-345).  An absent key reads as  *)
(* undefined.  quizAnswers is undefined, null or an array of answers.      *)

NoArray == [t |-> "undefined", a |-> <<>>]

Arr(as) == [t |-> "array", a |-> as]

Answer(text, rationale) == [text |-> text, rationale |-> rationale]

Zone(at, bt, bp, qq, qa, qc, qs, tv) ==
    [actionType |-> at, bannerText |-> bt, bannerPosition |-> bp,
     quizQuestion |-> qq, quizAnswers |-> qa, quizCorrectIndex |-> qc,
     quizShowRationale |-> qs, targetView |-> tv]

\* placeholder for "no zone has been clicked yet"
NoZone ==
    Zone(Undefined, Undefined, Undefined, Undefined, NoArray, Undefined,
         Undefined, Undefined)


-----------------------------------------------------------------------------
(* The click handler of a zone div (part_000:84-110) *)

\* variant of Resolve: the targetView test comes first in the chain
Resolve_TargetFirst(z) ==
    IF z.targetView # Undefined /\ z.targetView # Null THEN "targeted"
    ELSE IF z.actionType = Text("banner") /\ Truthy(z.bannerText) THEN "banner"
    ELSE IF z.actionType = Text("quiz") /\ Truthy(z.quizQuestion) THEN "quiz"
    ELSE "sequential"

\* the branch of the if / else-if chain that a record takes
Resolve(z) ==
    IF z.actionType = Text("banner") /\ Truthy(z.bannerText) THEN "banner"
    ELSE IF z.actionType = Text("quiz") /\ Truthy(z.quizQuestion) THEN "quiz"
    ELSE IF z.targetView # Undefined /\ z.targetView # Null THEN "targeted"
    ELSE "sequential"

Call(op, args) == [op |-> op, args |-> args]

\* variant of BannerBranch: the chain is not left after the banner and the
\* default advancement runs as well
BannerBranch_ThenAdvances(z) ==
    [calls |-> <<Call("showZoneBanner",
                      <<z.bannerText, OrElse(z.bannerPosition, Text("bottom"))>>),
                 Call("zoomToNextView", <<>>)>>,
     errors |-> 0]

\* banner branch (lines 89-92): the collaborator calls it makes
BannerBranch(z) ==
    [calls |-> <<Call("showZoneBanner",
                      <<z.bannerText, OrElse(z.bannerPosition, Text("bottom"))>>)>>,
     errors |-> 0]

\* targetIndex >= 0 && targetIndex < currentLessonViews.length (line 100);
\* every comparison with NaN is false
ValidTarget(targetIndex, n) ==
    /\ targetIndex.t = "number"
    /\ targetIndex.n >= 0
    /\ targetIndex.n < 2 * n

\* targetView branch (lines 98-105) in a lesson of n views
TargetedBranch(z, n) ==
    LET targetIndex == ParseInt(z.targetView)
    IN  IF ValidTarget(targetIndex, n)
        THEN [calls |-> <<Call("navigateToView", <<targetIndex>>)>>, errors |-> 0]
        ELSE [calls |-> <<Call("zoomToNextView", <<>>)>>, errors |-> 1]

\* default branch (lines 106-109)
SequentialBranch ==
    [calls |-> <<Call("zoomToNextView", <<>>)>>, errors |-> 0]

\* e.stopPropagation() (line 86): the event reaches no parent handler
StopPropagation(nesting) == 0

-----------------------------------------------------------------------------
(* The quiz modal (part_000:395-424) and showQuizModal (part_000:495-605). *)
(* dom is the state of the nodes the code touches:                         *)
(*   modalHidden     class 'hidden' of #quiz-modal                         *)
(*   question        text of #quiz-question                                *)
(*   options         the .quiz-option rows, in document order              *)
(*   feedback        #quiz-feedback and its icon / text / rationale        *)
(*   submit, close   the buttons that are IN THE DOCUMENT under the ids    *)
(*                   quiz-submit-btn / quiz-close-btn: class 'hidden' and  *)
(*                   the click listeners attached to the node              *)
(*   heldSubmit,     the nodes that the variables submitBtn / closeBtn of  *)
(*   heldClose       the latest showQuizModal call refer to; replaceWith   *)
(*                   takes them out of the document (lines 592, 600)       *)

Option(text) ==
    [text |-> text, checked |-> FALSE, selected |-> FALSE, correct |-> FALSE,
     incorrect |-> FALSE, disabled |-> FALSE, cursorDefault |-> FALSE]

Button(hidden, listeners) == [hidden |-> hidden, listeners |-> listeners]

\* the page as loaded: modal and continue button hidden, no listener yet
InitialDom ==
    [modalHidden |-> TRUE,
     question |-> EmptyString,
     options |-> <<>>,
     feedback |-> [hidden |-> TRUE, classes |-> {}, icon |-> "", text |-> "",
                   rationale |-> EmptyString],
     submit |-> Button(FALSE, <<>>),
     close |-> Button(TRUE, <<>>),
     heldSubmit |-> [hidden |-> FALSE],
     heldClose |-> [hidden |-> TRUE]]

\* what the handlers of one showQuizModal call read from their zone
Closure(z) ==
    [quizAnswers |-> z.quizAnswers, quizCorrectIndex |-> z.quizCorrectIndex,
     quizShowRationale |-> z.quizShowRationale]

\* variant of ClearPreviousState: the feedback panel is not reset
ClearPreviousState_KeepsFeedback(d, z) ==
    [d EXCEPT !.question = z.quizQuestion,
              !.options = <<>>,
              !.close.hidden = TRUE,
              !.submit.hidden = FALSE]

\* lines 503-511: set the question, clear the previous state
ClearPreviousState(d, z) ==
    [d EXCEPT !.question = z.quizQuestion,
              !.options = <<>>,
              !.feedback.hidden = TRUE,
              !.feedback.classes = {},
              !.close.hidden = TRUE,
              !.submit.hidden = FALSE]

\* lines 513-533: one fresh row per answer
CreateOptions(as) == [i \in 1..Len(as) |-> Option(as[i].text)]

\* variant of ReplaceWithClone: the listener is added to the node as it
\* is, without replacing it, so the listeners of earlier calls stay
ReplaceWithClone_KeepsListeners(node, listener) ==
    Button(node.hidden, Append(node.listeners, listener))

\* node.replaceWith(node.cloneNode(true)) followed by addEventListener on
\* the node found by id (lines 592-593, 600-601): the document holds a copy
\* with the same classes and only the new listener
ReplaceWithClone(node, listener) == Button(node.hidden, <<listener>>)

\* showQuizModal(zone): the dom after the call and whether it threw.
\* zone.quizAnswers.forEach throws a TypeError unless quizAnswers is an array
ShowQuizModal(d, z) ==
    LET d1 == ClearPreviousState(d, z)
    IN  IF z.quizAnswers.t # "array"
        THEN [dom |-> d1, thrown |-> TRUE]
        ELSE [dom |-> [d1 EXCEPT
                         !.options = CreateOptions(z.quizAnswers.a),
                         !.heldSubmit = [hidden |-> d1.submit.hidden],
                         !.submit = ReplaceWithClone(d1.submit, Closure(z)),
                         !.heldClose = [hidden |-> d1.close.hidden],
                         !.close = ReplaceWithClone(d1.close, Closure(z)),
                         !.modalHidden = FALSE],
              thrown |-> FALSE]


\* 0-based index of the checked radio input, -1 when none is checked
\* (document.querySelector('input[name="quiz-answer"]:checked'), line 537)
CheckedIndex(options) ==
    IF \E i \in DOMAIN options : options[i].checked
    THEN (CHOOSE i \in DOMAIN options :
             /\ options[i].checked
             /\ \A j \in DOMAIN options : options[j].checked => i <= j) - 1
    ELSE -1

\* variant of OptionDivClick: 'selected' is not removed from the other rows
OptionDivClick_KeepsSelected(d, i, onInput) ==
    [d EXCEPT !.options =
        [j \in DOMAIN d.options |->
            [d.options[j] EXCEPT
                !.checked = IF onInput /\ d.options[i].disabled
                            THEN @ ELSE (j = i),
                !.selected = @ \/ (j = i)]]]

\* the click listener of an option row (lines 523-530), for a click whose
\* target is the row's radio input (onInput) or the row / its label.
\* The inputs share name="quiz-answer": checking one unchecks the others.
\* The browser has already checked an enabled input that was clicked.
OptionDivClick(d, i, onInput) ==
    [d EXCEPT !.options =
        [j \in DOMAIN d.options |->
            [d.options[j] EXCEPT
                !.checked = IF onInput /\ d.options[i].disabled
                            THEN @ ELSE (j = i),
                !.selected = (j = i)]]]

\* zone.quizAnswers[zone.quizCorrectIndex] is an answer (line 583)
HasCorrectAnswer(c) ==
    /\ c.quizAnswers.t = "array"
    /\ IsInteger(c.quizCorrectIndex)
    /\ IntOf(c.quizCorrectIndex) \in 0..(Len(c.quizAnswers.a) - 1)

\* `The correct answer is: ${text}` (line 583)
FallbackText(text) == Str(<<"The correct answer is: ">> \o text.s)

\* lines 550-561: disable the inputs, mark the rows
MarkOptions(options, c, selectedIndex, isCorrect) ==
    [j \in DOMAIN options |->
        [options[j] EXCEPT
            !.disabled = TRUE,
            !.cursorDefault = TRUE,
            !.correct = @ \/ IntNum(j - 1) = c.quizCorrectIndex,
            !.incorrect = @ \/ (/\ IntNum(j - 1) # c.quizCorrectIndex
                                /\ j - 1 = selectedIndex
                                /\ ~isCorrect)]]

\* variant of ShowFeedback: a correct answer's own rationale is displayed
ShowFeedback_RationaleOnCorrect(f, c, selectedIndex, isCorrect) ==
    LET shown == [f EXCEPT !.hidden = FALSE,
                           !.classes = @ \cup {IF isCorrect THEN "correct"
                                               ELSE "incorrect"}]
        rationale == c.quizAnswers.a[selectedIndex + 1].rationale
        marked == [shown EXCEPT
                     !.icon = IF isCorrect THEN "check" ELSE "cross",
                     !.text = IF isCorrect THEN "Correct!" ELSE "Incorrect"]
    IN  IF Truthy(c.quizShowRationale) /\ Truthy(rationale)
        THEN [feedback |-> [marked EXCEPT !.rationale = rationale],
              thrown |-> FALSE]
        ELSE IF isCorrect
        THEN [feedback |-> [marked EXCEPT !.rationale = EmptyString],
              thrown |-> FALSE]
        ELSE IF HasCorrectAnswer(c)
        THEN [feedback |-> [marked EXCEPT
                  !.rationale = FallbackText(
                      c.quizAnswers.a[IntOf(c.quizCorrectIndex) + 1].text)],
              thrown |-> FALSE]
        ELSE [feedback |-> marked, thrown |-> TRUE]

\* variant of ShowFeedback: quizShowRationale is not consulted
ShowFeedback_IgnoresOptIn(f, c, selectedIndex, isCorrect) ==
    LET shown == [f EXCEPT !.hidden = FALSE,
                           !.classes = @ \cup {IF isCorrect THEN "correct"
                                               ELSE "incorrect"}]
        rationale == c.quizAnswers.a[selectedIndex + 1].rationale
    IN  IF isCorrect
        THEN [feedback |-> [shown EXCEPT !.icon = "check", !.text = "Correct!",
                                         !.rationale = EmptyString],
              thrown |-> FALSE]
        ELSE IF Truthy(rationale)
        THEN [feedback |-> [shown EXCEPT !.icon = "cross", !.text = "Incorrect",
                                         !.rationale = rationale],
              thrown |-> FALSE]
        ELSE IF HasCorrectAnswer(c)
        THEN [feedback |-> [shown EXCEPT
                  !.icon = "cross", !.text = "Incorrect",
                  !.rationale = FallbackText(
                      c.quizAnswers.a[IntOf(c.quizCorrectIndex) + 1].text)],
              thrown |-> FALSE]
        ELSE [feedback |-> [shown EXCEPT !.icon = "cross", !.text = "Incorrect"],
              thrown |-> TRUE]

\* lines 563-585: the feedback panel; thrown when the fallback text needs an
\* answer that does not exist
ShowFeedback(f, c, selectedIndex, isCorrect) ==
    LET shown == [f EXCEPT !.hidden = FALSE,
                           !.classes = @ \cup {IF isCorrect THEN "correct"
                                               ELSE "incorrect"}]
        rationale == c.quizAnswers.a[selectedIndex + 1].rationale
    IN  IF isCorrect
        THEN [feedback |-> [shown EXCEPT !.icon = "check", !.text = "Correct!",
                                         !.rationale = EmptyString],
              thrown |-> FALSE]
        ELSE IF Truthy(c.quizShowRationale) /\ Truthy(rationale)
        THEN [feedback |-> [shown EXCEPT !.icon = "cross", !.text = "Incorrect",
                                         !.rationale = rationale],
              thrown |-> FALSE]
        ELSE IF HasCorrectAnswer(c)
        THEN [feedback |-> [shown EXCEPT
                  !.icon = "cross", !.text = "Incorrect",
                  !.rationale = FallbackText(
                      c.quizAnswers.a[IntOf(c.quizCorrectIndex) + 1].text)],
              thrown |-> FALSE]
        ELSE [feedback |-> [shown EXCEPT !.icon = "cross", !.text = "Incorrect"],
              thrown |-> TRUE]

\* lines 587-589: submitBtn and closeBtn are the nodes that showQuizModal
\* looked up before it replaced them by clones, so the class changes land
\* on the nodes that are no longer in the document
HideSubmitShowContinue(d) ==
    [d EXCEPT !.heldSubmit.hidden = TRUE, !.heldClose.hidden = FALSE]

\* variant of SubmitHandler: the inputs are disabled before the selection
\* is tested
SubmitHandler_DisablesFirst(d, c) ==
    LET selectedIndex == CheckedIndex(d.options)
        isCorrect == IntNum(selectedIndex) = c.quizCorrectIndex
        fb == ShowFeedback(d.feedback, c, selectedIndex, isCorrect)
        d0 == [d EXCEPT !.options =
                  [j \in DOMAIN d.options |->
                      [d.options[j] EXCEPT !.disabled = TRUE]]]
        d1 == [d EXCEPT
                 !.options = MarkOptions(d.options, c, selectedIndex, isCorrect),
                 !.feedback = fb.feedback]
    IN  IF selectedIndex = -1
        THEN [dom |-> d0, notice |-> TRUE, thrown |-> FALSE, evaluated |-> 0]
        ELSE IF fb.thrown
        THEN [dom |-> d1, notice |-> FALSE, thrown |-> TRUE, evaluated |-> 1]
        ELSE [dom |-> HideSubmitShowContinue(d1), notice |-> FALSE,
              thrown |-> FALSE, evaluated |-> 1]

\* submitHandler (lines 536-590) of the showQuizModal call with closure c
SubmitHandler(d, c) ==
    LET selectedIndex == CheckedIndex(d.options)
        isCorrect == IntNum(selectedIndex) = c.quizCorrectIndex
        fb == ShowFeedback(d.feedback, c, selectedIndex, isCorrect)
        d1 == [d EXCEPT
                 !.options = MarkOptions(d.options, c, selectedIndex, isCorrect),
                 !.feedback = fb.feedback]
    IN  IF selectedIndex = -1
        THEN [dom |-> d, notice |-> TRUE, thrown |-> FALSE, evaluated |-> 0]
        ELSE IF fb.thrown
        THEN [dom |-> d1, notice |-> FALSE, thrown |-> TRUE, evaluated |-> 1]
        ELSE [dom |-> HideSubmitShowContinue(d1), notice |-> FALSE,
              thrown |-> FALSE, evaluated |-> 1]

\* closeHandler (lines 596-598)
CloseHandler(d) == [d EXCEPT !.modalHidden = TRUE]

\* a click on the submit button in the document runs every listener
\* attached to it, in order; an exception in one does not stop the next
RECURSIVE RunSubmitListeners(_, _)
RunSubmitListeners(d, ls) ==
    IF ls = <<>>
    THEN [dom |-> d, notice |-> FALSE, thrown |-> FALSE, evaluated |-> 0]
    ELSE LET r == SubmitHandler(d, Head(ls))
             rest == RunSubmitListeners(r.dom, Tail(ls))
         IN  [dom |-> rest.dom,
              notice |-> r.notice \/ rest.notice,
              thrown |-> r.thrown \/ rest.thrown,
              evaluated |-> r.evaluated + rest.evaluated]

RECURSIVE RunCloseListeners(_, _)
RunCloseListeners(d, ls) ==
    IF ls = <<>> THEN d ELSE RunCloseListeners(CloseHandler(d), Tail(ls))


-----------------------------------------------------------------------------
(* Inputs: the stored records that are clicked *)

ActionTypes == {Undefined, Null, Text("banner"), Text("quiz")}

BannerTexts == {Undefined, Null, EmptyString, Text("Hi")}

BannerPositions == {Undefined, Text("top")}

QuizQuestions == {Undefined, EmptyString, Text("Q?")}

\* a stored targetView: absent, null, integers around the range of views,
\* the non-integer -0.5, and the strings "ab", "1", "1x"
TargetViews ==
    {Undefined, Null, Num(-1),
     Str(<<"a", "b">>), Str(<<"1">>), Str(<<"1", "x">>)}
    \cup {IntNum(i) : i \in (-1)..(MaxViews + 2)}

TwoAnswers ==
    Arr(<<Answer(Text("A"), Null), Answer(Text("B"), Text("wrong"))>>)

ThreeAnswers ==
    Arr(<<Answer(Text("A"), Text("no")), Answer(Text("B"), EmptyString),
          Answer(Text("C"), Null)>>)

\* records with every combination of the fields that decide the branch;
\* bannerPosition and quizAnswers, which only the chosen branch reads, vary
\* with the actionType that leads to that branch
PrecedenceRecords ==
    {z \in {Zone(at, bt, bp, qq, qa, IntNum(0), Bool(TRUE), tv) :
                at \in ActionTypes, bt \in BannerTexts,
                bp \in BannerPositions, qq \in QuizQuestions,
                qa \in {NoArray, TwoAnswers},
                tv \in {Undefined, Null, IntNum(1)}} :
        /\ z.bannerPosition = Undefined \/ z.actionType = Text("banner")
        /\ z.quizAnswers = NoArray \/ z.actionType = Text("quiz")}

\* records with every stored targetView, with and without stale fields of
\* the other kinds
TargetRecords ==
    {Zone(at, bt, Undefined, Undefined, NoArray, Undefined, Undefined, tv) :
        at \in {Undefined, Text("banner")}, bt \in {Undefined, EmptyString},
        tv \in TargetViews}

AllZoneRecords == PrecedenceRecords \cup TargetRecords

\* quiz records: well-formed ones and ones with a missing or out-of-range
\* part
QuizRecords ==
    {Zone(Text("quiz"), Undefined, Undefined, Text("Q?"), qa, qc, qs, Undefined) :
        qa \in {TwoAnswers, ThreeAnswers},
        qc \in {Undefined, IntNum(0), IntNum(1)},
        qs \in {Bool(TRUE), Bool(FALSE)}}
    \cup {Zone(Text("quiz"), Undefined, Undefined, Text("Q?"), NoArray,
               IntNum(0), Bool(TRUE), IntNum(1))}

\* the zones of the lesson in the full model
StoredZones ==
    QuizRecords \cup
    {Zone(Text("banner"), Text("Hi"), Undefined, Undefined, NoArray, Undefined,
          Undefined, IntNum(1))}

-----------------------------------------------------------------------------
(* The zone editor of the admin view (part_000:641-740).  adminState.zones *)
(* holds one object per zone: the stored record plus its label.  The shape *)
(* fields (type, x, y, width, height, points) are written when the zone is *)
(* drawn and by no handler modelled here.                                  *)

AdminZone(label, z) == [label |-> label] @@ z

\* what reading a key that is not on the object gives
Absent(k) == IF k = "quizAnswers" THEN NoArray ELSE Undefined

\* delete zone[k] for every k in keys
Delete(z, keys) == [k \in DOMAIN z |-> IF k \in keys THEN Absent(k) ELSE z[k]]

\* String.prototype.trim on a sequence of characters
RECURSIVE TrimLeft(_)
TrimLeft(cs) ==
    IF cs # <<>> /\ Head(cs) = " " THEN TrimLeft(Tail(cs)) ELSE cs

RECURSIVE TrimRight(_)
TrimRight(cs) ==
    IF cs # <<>> /\ cs[Len(cs)] = " "
    THEN TrimRight(SubSeq(cs, 1, Len(cs) - 1))
    ELSE cs

Trim(cs) == TrimRight(TrimLeft(cs))

\* "Update label" (lines 691-696): the trimmed label is stored, a blank
\* one removes the key
UpdateLabel(z, label) ==
    LET newLabel == Trim(label.s)
    IN  IF newLabel # <<>> THEN [z EXCEPT !.label = Str(newLabel)]
        ELSE Delete(z, {"label"})

\* the keys the image-navigation branch deletes (lines 710-716)
BannerAndQuizKeys ==
    {"actionType", "bannerText", "bannerPosition", "quizQuestion",
     "quizAnswers", "quizCorrectIndex", "quizShowRationale"}

\* variant of SetTargetView: the branch as it was before the quiz keys
\* were added to it
SetTargetView_KeepsQuiz(z, selectedAction) ==
    [Delete(z, {"actionType", "bannerText", "bannerPosition"})
        EXCEPT !.targetView = ParseInt(selectedAction)]

\* "Handle image navigation" (lines 708-722)
SetTargetView(z, selectedAction) ==
    [Delete(z, BannerAndQuizKeys) EXCEPT !.targetView = ParseInt(selectedAction)]

\* variant of SetNoAction: only targetView is removed, as if the branch
\* cleared navigation alone
SetNoAction_KeepsAction(z) == Delete(z, {"targetView"})

\* "Sequential navigation (no action)" (lines 724-737)
SetNoAction(z) == Delete(z, BannerAndQuizKeys \cup {"targetView"})

\* the messages of the validation dialogs (lines 291, 303, 314)
QuestionRequired == "Quiz question is required."

AnswersRequired == "At least 2 answer options are required."

CorrectNotProvided ==
    "The selected correct answer must be one of the provided options."

Valid == "valid"

\* the values of one submission of the quiz form (lines 158-214)
FormData(q, a1, a2, a3, a4, c, r) ==
    [quizQuestion |-> q, answer1 |-> a1, answer2 |-> a2, answer3 |-> a3,
     answer4 |-> a4, correctAnswer |-> c, showRationale |-> r]

\* a && a.trim() !== ''
NonBlank(a) == Truthy(a) /\ Trim(a.s) # <<>>

\* [answer1, answer2, answer3, answer4].filter(a => a && a.trim() !== '')
FilledAnswers(formData) ==
    SelectSeq(<<formData.answer1, formData.answer2, formData.answer3,
                formData.answer4>>, NonBlank)

\* correctIndex >= answers.length; false when correctIndex is NaN
NotLessThan(correctIndex, length) ==
    correctIndex.t = "number" /\ correctIndex.n >= 2 * length

\* variant of validateQuizData: the question is compared without trim()
validateQuizData_NoTrim(formData) ==
    IF ~Truthy(formData.quizQuestion) THEN QuestionRequired
    ELSE IF Len(FilledAnswers(formData)) < 2 THEN AnswersRequired
    ELSE IF NotLessThan(ParseInt(formData.correctAnswer),
                        Len(FilledAnswers(formData)))
    THEN CorrectNotProvided
    ELSE Valid

\* variant of validateQuizData: the correct index is not compared
validateQuizData_NoIndexCheck(formData) ==
    IF ~NonBlank(formData.quizQuestion) THEN QuestionRequired
    ELSE IF Len(FilledAnswers(formData)) < 2 THEN AnswersRequired
    ELSE Valid

\* validateQuizData (lines 286-322): the message of the dialog it raises
\* before returning false, or Valid when it returns true
validateQuizData(formData) ==
    IF ~NonBlank(formData.quizQuestion) THEN QuestionRequired
    ELSE IF Len(FilledAnswers(formData)) < 2 THEN AnswersRequired
    ELSE IF NotLessThan(ParseInt(formData.correctAnswer),
                        Len(FilledAnswers(formData)))
    THEN CorrectNotProvided
    ELSE Valid

\* The banner branch of editAdminZone (line 700, "Existing banner
\* logic...") and showQuizConfigModal (line 705) are in Index.html, which
\* is not part of the sources at hand.  Their commits follow the zone
\* editor's description: the keys of every other kind are deleted and the
\* keys of the new kind are written, once the collected values are valid.

\* the zone after the banner dialog is confirmed with a text and position
CommitBanner(z, text, position) ==
    [Delete(z, {"quizQuestion", "quizAnswers", "quizCorrectIndex",
                "quizShowRationale", "targetView"})
        EXCEPT !.actionType = Text("banner"),
               !.bannerText = text,
               !.bannerPosition = position]

\* variant of QuizAnswersOf: the rationale collected for the position of
\* the correct answer is stored with it
QuizAnswersOf_KeepsCorrect(formData, rationales) ==
    LET answers == FilledAnswers(formData)
    IN  Arr([i \in 1..Len(answers) |->
                Answer(answers[i],
                       IF ~formData.showRationale THEN Null
                       ELSE rationales[i])])

\* the quizAnswers array: the non-blank answers in order; the correct one
\* carries rationale null, every other one the rationale collected for its
\* position, or null when no rationale was asked for
QuizAnswersOf(formData, rationales) ==
    LET answers == FilledAnswers(formData)
        correctIndex == ParseInt(formData.correctAnswer)
    IN  Arr([i \in 1..Len(answers) |->
                Answer(answers[i],
                       IF correctIndex = IntNum(i - 1) \/ ~formData.showRationale
                       THEN Null
                       ELSE rationales[i])])

\* the zone after the quiz dialogs are confirmed with valid values
CommitQuiz(z, formData, rationales) ==
    [Delete(z, {"bannerText", "bannerPosition", "targetView"})
        EXCEPT !.actionType = Text("quiz"),
               !.quizQuestion = formData.quizQuestion,
               !.quizAnswers = QuizAnswersOf(formData, rationales),
               !.quizCorrectIndex = ParseInt(formData.correctAnswer),
               !.quizShowRationale = Bool(formData.showRationale)]

\* the kind of action an editor zone carries, read as the editor reads it
\* to preselect the action (lines 656-662)
CurrentKind(z) ==
    IF z.actionType = Text("banner") THEN "banner"
    ELSE IF z.actionType = Text("quiz") THEN "quiz"
    ELSE IF z.targetView # Undefined THEN "targeted"
    ELSE "none"

-----------------------------------------------------------------------------
(* JSON.stringify and JSON.parse (part_000:961, src/Code.js:186).  A JSON  *)
(* text is a string: a sequence of characters, some of them written as one *)
(* token ("null", "true", "false", and the letters of a word such as "Q?"  *)
(* that is never taken apart).  Inside a string literal the quote and the  *)
(* backslash are escaped with a backslash.                                 *)

Quote == "\""

Backslash == "\\"

\* an object: o maps each key that is on the object to its value
Obj(o) == [t |-> "object", o |-> o]

\* the characters of a string literal's content, escaped
RECURSIVE Escape(_)
Escape(cs) ==
    IF cs = <<>> THEN <<>>
    ELSE (IF Head(cs) \in {Quote, Backslash} THEN <<Backslash, Head(cs)>>
          ELSE <<Head(cs)>>) \o Escape(Tail(cs))

StringifyString(cs) == <<Quote>> \o Escape(cs) \o <<Quote>>

\* the decimal digits of a natural number
RECURSIVE DigitsOf(_)
DigitsOf(k) ==
    IF k < 10 THEN <<DigitChar(k)>>
    ELSE DigitsOf(k \div 10) \o <<DigitChar(k % 10)>>

\* a number (h halves) in decimal notation
StringifyNumber(h) ==
    LET mag == IF h < 0 THEN 0 - h ELSE h
    IN  (IF h < 0 THEN <<"-">> ELSE <<>>)
        \o DigitsOf(mag \div 2)
        \o (IF mag % 2 = 1 THEN <<".", "5">> ELSE <<>>)

\* a value that is neither an array nor an object; NaN is written as null
StringifyScalar(v) ==
    CASE v.t = "string" -> StringifyString(v.s)
      [] v.t = "number" -> StringifyNumber(v.n)
      [] v.t = "boolean" -> IF v.n = 1 THEN <<"true">> ELSE <<"false">>
      [] v.t \in {"null", "NaN"} -> <<"null">>

\* the texts joined with commas
RECURSIVE Join(_)
Join(texts) ==
    IF texts = <<>> THEN <<>>
    ELSE IF Len(texts) = 1 THEN texts[1]
    ELSE texts[1] \o <<",">> \o Join(Tail(texts))

\* an object given as its <<key, text of the value>> pairs
StringifyMembers(members) ==
    <<"{">>
    \o Join([i \in 1..Len(members) |->
                StringifyString(<<members[i][1]>>) \o <<":">> \o members[i][2]])
    \o <<"}">>

\* the keys of a zone object, in the order they are written
ZoneKeyOrder ==
    <<"label", "actionType", "bannerText", "bannerPosition", "quizQuestion",
      "quizAnswers", "quizCorrectIndex", "quizShowRationale", "targetView">>

\* JSON.stringify of an answer; a key whose value is undefined is left out
StringifyAnswer(a) ==
    StringifyMembers(
        SelectSeq(<<<<"text", IF a.text = Undefined THEN <<>>
                              ELSE StringifyScalar(a.text)>>,
                    <<"rationale", IF a.rationale = Undefined THEN <<>>
                                   ELSE StringifyScalar(a.rationale)>>>>,
                  LAMBDA m : m[2] # <<>>))

\* JSON.stringify of the value of a zone's key; <<>> for undefined
StringifyField(z, k) ==
    IF k = "quizAnswers"
    THEN CASE z[k].t = "array" ->
                <<"[">>
                \o Join([i \in 1..Len(z[k].a) |-> StringifyAnswer(z[k].a[i])])
                \o <<"]">>
           [] z[k].t = "null" -> <<"null">>
           [] OTHER -> <<>>
    ELSE IF z[k] = Undefined THEN <<>>
    ELSE StringifyScalar(z[k])

\* JSON.stringify of a zone object
StringifyZone(z) ==
    StringifyMembers(
        SelectSeq([i \in 1..Len(ZoneKeyOrder) |->
                      <<ZoneKeyOrder[i], StringifyField(z, ZoneKeyOrder[i])>>],
                  LAMBDA m : m[2] # <<>>))

\* variant of JSONStringify: the list is written without its brackets
JSONStringify_NoBrackets(zs) ==
    Str(Join([i \in 1..Len(zs) |-> StringifyZone(zs[i])]))

\* JSON.stringify(adminState.zones) (part_000:961)
JSONStringify(zs) ==
    Str(<<"[">> \o Join([i \in 1..Len(zs) |-> StringifyZone(zs[i])])
        \o <<"]">>)

\* the result of reading a value from a text: next is the position after
\* it; ok is false where JSON.parse throws a SyntaxError
Parsed(v, next) == [ok |-> TRUE, v |-> v, next |-> next]

SyntaxError == [ok |-> FALSE, v |-> Undefined, next |-> 0]

\* the content of a string literal from position i (after the opening
\* quote) up to its closing quote
RECURSIVE ParseString(_, _, _)
ParseString(ts, i, acc) ==
    IF i > Len(ts) THEN SyntaxError
    ELSE IF ts[i] = Quote THEN Parsed(Str(acc), i + 1)
    ELSE IF ts[i] = Backslash
    THEN IF i + 1 <= Len(ts) /\ ts[i + 1] \in {Quote, Backslash}
         THEN ParseString(ts, i + 2, Append(acc, ts[i + 1]))
         ELSE SyntaxError
    ELSE ParseString(ts, i + 1, Append(acc, ts[i]))

\* position after the digits that start at i
RECURSIVE SkipDigits(_, _)
SkipDigits(ts, i) ==
    IF i <= Len(ts) /\ ts[i] \in Digits THEN SkipDigits(ts, i + 1) ELSE i

\* a number: an optional minus, digits, and an optional fraction .5 or .0
ParseNumber(ts, i) ==
    LET j == IF ts[i] = "-" THEN i + 1 ELSE i
        k == SkipDigits(ts, j)
        whole == ReadDigits(ts, j, 0)
        fraction == k + 1 <= Len(ts) /\ ts[k] = "." /\ ts[k + 1] \in {"0", "5"}
        halves == 2 * whole + (IF fraction /\ ts[k + 1] = "5" THEN 1 ELSE 0)
    IN  IF k = j THEN SyntaxError
        ELSE Parsed(Num(IF ts[i] = "-" THEN 0 - halves ELSE halves),
                    IF fraction THEN k + 2 ELSE k)

\* the object with the members read: a later member with the same key
\* replaces an earlier one
ObjectOf(members) ==
    Obj([k \in {members[j][1] : j \in 1..Len(members)} |->
            LET last == CHOOSE j \in 1..Len(members) :
                            /\ members[j][1] = k
                            /\ \A l \in (j + 1)..Len(members) : members[l][1] # k
            IN  members[last][2]])

\* the key a string literal names (the keys in use are single words)
KeyOf(v) == IF Len(v.s) = 1 THEN v.s[1] ELSE "?"

RECURSIVE ParseValue(_, _)
RECURSIVE ParseElements(_, _, _)
RECURSIVE ParseMembers(_, _, _)

\* the elements of an array from position i, after '[' or after ','
ParseElements(ts, i, acc) ==
    LET e == ParseValue(ts, i)
        j == SkipWhite(ts, e.next)
    IN  IF ~e.ok \/ j > Len(ts) THEN SyntaxError
        ELSE IF ts[j] = "," THEN ParseElements(ts, j + 1, Append(acc, e.v))
        ELSE IF ts[j] = "]" THEN Parsed(Arr(Append(acc, e.v)), j + 1)
        ELSE SyntaxError

\* the members of an object from position i, after '{' or after ','
ParseMembers(ts, i, acc) ==
    LET k == SkipWhite(ts, i)
        key == IF k <= Len(ts) /\ ts[k] = Quote
               THEN ParseString(ts, k + 1, <<>>)
               ELSE SyntaxError
        c == SkipWhite(ts, key.next)
        e == ParseValue(ts, c + 1)
        j == SkipWhite(ts, e.next)
        members == Append(acc, <<KeyOf(key.v), e.v>>)
    IN  IF ~key.ok \/ c > Len(ts) THEN SyntaxError
        ELSE IF ts[c] # ":" THEN SyntaxError
        ELSE IF ~e.ok \/ j > Len(ts) THEN SyntaxError
        ELSE IF ts[j] = "," THEN ParseMembers(ts, j + 1, members)
        ELSE IF ts[j] = "}" THEN Parsed(ObjectOf(members), j + 1)
        ELSE SyntaxError

\* the value that starts at position i, after optional whitespace
ParseValue(ts, i) ==
    LET j == SkipWhite(ts, i)
        k == SkipWhite(ts, j + 1)
    IN  IF j > Len(ts) THEN SyntaxError
        ELSE IF ts[j] = "[" THEN
            IF k <= Len(ts) /\ ts[k] = "]" THEN Parsed(Arr(<<>>), k + 1)
            ELSE ParseElements(ts, j + 1, <<>>)
        ELSE IF ts[j] = "{" THEN
            IF k <= Len(ts) /\ ts[k] = "}" THEN Parsed(Obj(<<>>), k + 1)
            ELSE ParseMembers(ts, j + 1, <<>>)
        ELSE IF ts[j] = Quote THEN ParseString(ts, j + 1, <<>>)
        ELSE IF ts[j] = "null" THEN Parsed(Null, j + 1)
        ELSE IF ts[j] = "true" THEN Parsed(Bool(TRUE), j + 1)
        ELSE IF ts[j] = "false" THEN Parsed(Bool(FALSE), j + 1)
        ELSE IF ts[j] = "-" \/ ts[j] \in Digits THEN ParseNumber(ts, j)
        ELSE SyntaxError

\* JSON.parse(text): the value, or a SyntaxError when the text is not one
\* JSON value followed by nothing but whitespace
JSONParse(text) ==
    LET r == ParseValue(text.s, 1)
    IN  IF r.ok /\ SkipWhite(text.s, r.next) > Len(text.s) THEN r
        ELSE SyntaxError

\* v.k for a parsed value v: undefined when the key is not on the object
Read(v, k) ==
    IF v.t = "object" /\ k \in DOMAIN v.o THEN v.o[k] ELSE Undefined

\* the answers array of a parsed zone as the quiz modal reads it
StoredAnswers(v) ==
    IF v.t = "array"
    THEN Arr([i \in 1..Len(v.a) |->
                Answer(Read(v.a[i], "text"), Read(v.a[i], "rationale"))])
    ELSE [t |-> v.t, a |-> <<>>]

\* a parsed zone object as the views and the editor read it, key by key
StoredZone(v) ==
    AdminZone(Read(v, "label"),
              Zone(Read(v, "actionType"), Read(v, "bannerText"),
                   Read(v, "bannerPosition"), Read(v, "quizQuestion"),
                   StoredAnswers(Read(v, "quizAnswers")),
                   Read(v, "quizCorrectIndex"), Read(v, "quizShowRationale"),
                   Read(v, "targetView")))

-----------------------------------------------------------------------------
(* The "Lesson Database" sheet (src/Code.js, src/SPREADSHEET_EXAMPLE.md).  *)
(* A row is the sequence of its cells: column 1 the lesson title, column 2 *)
(* the lesson description, then for image k (from 0) the columns 3+3k      *)
(* (description), 4+3k (URL) and 5+3k (zones).  An empty cell reads as ''. *)
(* The header row is left out: getLessonData shifts it off and the other   *)
(* functions start below it.                                               *)

\* value.toString() of a cell value
toString(v) ==
    CASE v.t = "string" -> v
      [] v.t = "number" -> Str(StringifyNumber(v.n))
      [] v.t = "boolean" -> IF v.n = 1 THEN Text("true") ELSE Text("false")

DriveLinkPrefixes == {"drive.google.com/file/d/", "drive.google.com/open?id="}

\* convertGoogleDriveUrl (src/Code.js:83-96): null for a value that is
\* falsy or not a string; the thumbnail link of the file id for a Drive
\* share link; any other string unchanged
convertGoogleDriveUrl(url) ==
    IF ~Truthy(url) \/ url.t # "string" THEN Null
    ELSE IF \E i \in 1..(Len(url.s) - 1) : url.s[i] \in DriveLinkPrefixes
    THEN LET i == CHOOSE i \in 1..(Len(url.s) - 1) :
                        /\ url.s[i] \in DriveLinkPrefixes
                        /\ \A j \in 1..(i - 1) : url.s[j] \notin DriveLinkPrefixes
         IN  Str(<<"https://drive.google.com/thumbnail?id=", url.s[i + 1],
                   "&sz=w2000">>)
    ELSE url

\* v && v.toString().trim() !== ""
NotBlankCell(v) == Truthy(v) /\ Trim(toString(v).s) # <<>>

\* the zones of a view from its zones cell (src/Code.js:182-201): the
\* parsed array; [] for a blank cell, for a text that does not parse (the
\* SyntaxError is caught) and for a value that is not an array
ParseZonesCell(zonesData) ==
    IF NotBlankCell(zonesData)
    THEN LET parsedZones == JSONParse(toString(zonesData))
         IN  IF parsedZones.ok /\ parsedZones.v.t = "array"
             THEN [zones |-> parsedZones.v.a, thrown |-> FALSE]
             ELSE [zones |-> <<>>, thrown |-> ~parsedZones.ok]
    ELSE [zones |-> <<>>, thrown |-> FALSE]

\* the views of a row from column i on (src/Code.js:169-203), i counted
\* from 1: a slot whose description or URL is blank adds no view
RECURSIVE ViewsFrom(_, _)
ViewsFrom(lessonRow, i) ==
    IF i > Len(lessonRow) THEN <<>>
    ELSE LET description == lessonRow[i]
             imageUrl == convertGoogleDriveUrl(lessonRow[i + 1])
             zonesData == lessonRow[i + 2]
         IN  (IF NotBlankCell(description) /\ NotBlankCell(imageUrl)
              THEN <<[description |-> description, imageUrl |-> imageUrl,
                      zones |-> ParseZonesCell(zonesData).zones]>>
              ELSE <<>>)
             \o ViewsFrom(lessonRow, i + 3)

\* a SyntaxError of JSON.parse leaves the loop of the views
RECURSIVE ParseThrows(_, _)
ParseThrows(lessonRow, i) ==
    /\ i <= Len(lessonRow)
    /\ \/ /\ NotBlankCell(lessonRow[i])
          /\ NotBlankCell(convertGoogleDriveUrl(lessonRow[i + 1]))
          /\ ParseZonesCell(lessonRow[i + 2]).thrown
       \/ ParseThrows(lessonRow, i + 3)

\* variant of getLessonData: JSON.parse is called outside a try of its
\* own, so its SyntaxError reaches the catch of the function
getLessonData_NoInnerCatch(data, lessonName) ==
    IF \E r \in 1..Len(data) : data[r][1] = lessonName
    THEN LET lessonRow == data[CHOOSE r \in 1..Len(data) :
                                  /\ data[r][1] = lessonName
                                  /\ \A q \in 1..(r - 1) : data[q][1] # lessonName]
         IN  IF ParseThrows(lessonRow, 3) THEN <<>> ELSE ViewsFrom(lessonRow, 3)
    ELSE <<>>

\* getLessonData (src/Code.js:149-206): the views of the first row whose
\* title is lessonName (===); [] when there is none
getLessonData(data, lessonName) ==
    IF \E r \in 1..Len(data) : data[r][1] = lessonName
    THEN LET lessonRow == data[CHOOSE r \in 1..Len(data) :
                                  /\ data[r][1] = lessonName
                                  /\ \A q \in 1..(r - 1) : data[q][1] # lessonName]
         IN  ViewsFrom(lessonRow, 3)
    ELSE <<>>

\* getLessonForEditing (src/Code.js:600-643): the images of the first row
\* whose trimmed title equals the trimmed lessonName, one per image slot
\* whose description and URL are not blank, each with the number of its
\* slot as index (Math.floor((i - 2) / 3)); no success without such a row
getLessonForEditing(data, lessonName) ==
    LET found == {r \in 1..Len(data) :
                    /\ Truthy(data[r][1])
                    /\ Trim(toString(data[r][1]).s) = Trim(lessonName.s)}
        lessonRow == data[CHOOSE r \in found : \A q \in found : r <= q]
        slots == [k \in 1..((Len(lessonRow) - 2) \div 3) |->
                    [index |-> k - 1,
                     description |-> lessonRow[3 * k],
                     url |-> lessonRow[3 * k + 1],
                     zones |-> lessonRow[3 * k + 2]]]
        HasImage(slot) == NotBlankCell(slot.description) /\ NotBlankCell(slot.url)
        Image(slot) ==
            [slot EXCEPT !.url = convertGoogleDriveUrl(slot.url),
                         !.zones = IF Truthy(slot.zones)
                                   THEN toString(slot.zones)
                                   ELSE Str(<<"[", "]">>)]
    IN  IF found = {} THEN [success |-> FALSE, images |-> <<>>]
        ELSE [success |-> TRUE,
              images |-> LET kept == SelectSeq(slots, HasImage)
                         IN  [j \in 1..Len(kept) |-> Image(kept[j])]]

\* variant of updateLessonImage: the columns are counted from the lesson
\* description, baseColumn = 2 + imageIndex * 3
updateLessonImage_BaseColumnTwo(data, lessonName, imageIndex, imageDescription, imageUrl, zonesJson) ==
    LET found == {r \in 1..Len(data) :
                    /\ Truthy(data[r][1])
                    /\ Trim(toString(data[r][1]).s) = Trim(lessonName.s)}
        lessonRow == CHOOSE r \in found : \A q \in found : r <= q
        baseColumn == 2 + (imageIndex * 3)
    IN  IF found = {} THEN [success |-> FALSE, data |-> data]
        ELSE [success |-> TRUE,
              data |-> [data EXCEPT ![lessonRow] =
                            [@ EXCEPT ![baseColumn] = imageDescription,
                                      ![baseColumn + 1] = imageUrl,
                                      ![baseColumn + 2] = zonesJson]]]

\* updateLessonImage (src/Code.js:543-593): the first row whose trimmed
\* title equals the trimmed lessonName gets the three cells of the image
\* written; { success: false } and no write when there is no such row
updateLessonImage(data, lessonName, imageIndex, imageDescription, imageUrl, zonesJson) ==
    LET found == {r \in 1..Len(data) :
                    /\ Truthy(data[r][1])
                    /\ Trim(toString(data[r][1]).s) = Trim(lessonName.s)}
        lessonRow == CHOOSE r \in found : \A q \in found : r <= q
        baseColumn == 3 + (imageIndex * 3)
    IN  IF found = {} THEN [success |-> FALSE, data |-> data]
        ELSE [success |-> TRUE,
              data |-> [data EXCEPT ![lessonRow] =
                            [@ EXCEPT ![baseColumn] = imageDescription,
                                      ![baseColumn + 1] = imageUrl,
                                      ![baseColumn + 2] = zonesJson]]]

\* createLessonFolder (src/Code.js:375-409) on the folder names under the
\* root folder: a folder of that name is reused, otherwise one is created;
\* an exception of the Drive service (driveFails) is caught and reported
createLessonFolder(names, lessonTitle, driveFails) ==
    IF driveFails THEN [success |-> FALSE, folders |-> names]
    ELSE [success |-> TRUE, folders |-> names \cup {lessonTitle}]

\* variant of createLesson: the titles are compared as they are stored
createLesson_NoTrim(data, names, lessonTitle, lessonDescription, driveFails) ==
    LET exists == \E r \in 1..Len(data) :
                    /\ Truthy(data[r][1])
                    /\ toString(data[r][1]) = lessonTitle
        folderResult == createLessonFolder(names, lessonTitle, driveFails)
        width == IF data = <<>> THEN 2 ELSE Len(data[1])
    IN  IF exists \/ ~folderResult.success
        THEN [success |-> FALSE, data |-> data, folders |-> names]
        ELSE [success |-> TRUE,
              data |-> Append(data, [c \in 1..width |->
                                        IF c = 1 THEN lessonTitle
                                        ELSE IF c = 2 THEN lessonDescription
                                        ELSE EmptyString]),
              folders |-> folderResult.folders]

\* createLesson (src/Code.js:486-532): refused when a row has a title
\* that equals lessonTitle after trimming both, before any folder is
\* made; refused when the folder cannot be made; otherwise the title and
\* the description, as given, go into a new row below the last one
createLesson(data, names, lessonTitle, lessonDescription, driveFails) ==
    LET exists == \E r \in 1..Len(data) :
                    /\ Truthy(data[r][1])
                    /\ Trim(toString(data[r][1]).s) = Trim(lessonTitle.s)
        folderResult == createLessonFolder(names, lessonTitle, driveFails)
        width == IF data = <<>> THEN 2 ELSE Len(data[1])
    IN  IF exists \/ ~folderResult.success
        THEN [success |-> FALSE, data |-> data, folders |-> names]
        ELSE [success |-> TRUE,
              data |-> Append(data, [c \in 1..width |->
                                        IF c = 1 THEN lessonTitle
                                        ELSE IF c = 2 THEN lessonDescription
                                        ELSE EmptyString]),
              folders |-> folderResult.folders]

-----------------------------------------------------------------------------
(* State *)

\* a quiz has at most four answer options (part_000:4, 171-196)
MaxOptions == 4

VARIABLES
    viewCount,    \* currentLessonViews.length
    dom,          \* the quiz modal's nodes
    zone,         \* the record of the zone clicked last
    branch,       \* the branch the last zone click took
    calls,        \* the collaborator calls the last zone click made
    errors,       \* console.error calls of the last zone click
    parentRuns,   \* parent click handlers the last zone click reached
    thrown,       \* the last event's handler ended in an exception
    notice,       \* the last event raised the 'No Selection' dialog
    lastEvent,    \* which event was handled last
    evals,        \* evaluations run by submits since the modal was opened
    prevOutcome,  \* feedback classes shown when the modal was last opened
    zones,        \* adminState.zones
    editor,       \* the dialog of the zone editor that is open
    txn,          \* the editor operation in progress or ended last
    sheet,        \* the rows of the lesson sheet below the header
    written,      \* what the last updateLessonImage that succeeded wrote
    loaded,       \* the last call of a sheet function and what it returned
    folders       \* the names of the lesson folders in the Drive root folder

\* the student view
viewVars == <<dom, zone, branch, calls, errors, parentRuns, thrown, notice,
              lastEvent, evals, prevOutcome>>

\* the admin view
adminVars == <<zones, editor, txn>>

\* the spreadsheet and the calls of the server functions
storeVars == <<sheet, written, loaded, folders>>

vars == <<viewCount, viewVars, adminVars, storeVars>>

Min(a, b) == IF a <= b THEN a ELSE b

\* no dialog of the editor is open
Idle == [phase |-> "idle", index |-> 0, formData |-> <<>>]

\* no server function has been called
NoCall == [op |-> "none", lessonName |-> EmptyString, success |-> FALSE,
           views |-> <<>>]

NothingWritten == [lessonName |-> EmptyString, imageIndex |-> 0, zones |-> <<>>,
                   any |-> FALSE]

\* no editor operation has run
NoTxn == [op |-> "none", outcome |-> "none", index |-> 0, kind |-> "none",
          priorKind |-> "none", message |-> "", before |-> <<>>]

Init ==
    /\ viewCount \in 1..MaxViews
    /\ dom = InitialDom
    /\ zone = NoZone
    /\ branch = "none"
    /\ calls = <<>>
    /\ errors = 0
    /\ parentRuns = 0
    /\ thrown = FALSE
    /\ notice = FALSE
    /\ lastEvent = "none"
    /\ evals = 0
    /\ prevOutcome = {}
    /\ zones = <<>>
    /\ editor = Idle
    /\ txn = NoTxn
    /\ sheet = <<>>
    /\ written = NothingWritten
    /\ loaded = NoCall
    /\ folders = {}

\* a click on the div of zone z, nested in `nesting` clickable parents
ZoneClick(z, nesting) ==
    LET b == Resolve(z)
        q == ShowQuizModal(dom, z)
        r == CASE b = "banner" -> BannerBranch(z)
               [] b = "quiz" -> [calls |-> <<Call("showQuizModal", <<>>)>>,
                                 errors |-> 0]
               [] b = "targeted" -> TargetedBranch(z, viewCount)
               [] b = "sequential" -> SequentialBranch
    IN  /\ zone' = z
        /\ branch' = b
        /\ calls' = r.calls
        /\ errors' = r.errors
        /\ parentRuns' = StopPropagation(nesting)
        /\ dom' = IF b = "quiz" THEN q.dom ELSE dom
        /\ thrown' = (b = "quiz" /\ q.thrown)
        /\ notice' = FALSE
        /\ lastEvent' = "zoneClick"
        /\ evals' = IF b = "quiz" /\ ~q.thrown THEN 0 ELSE evals
        /\ prevOutcome' = IF b = "quiz" /\ ~q.thrown
                          THEN (IF dom.feedback.hidden THEN {}
                                ELSE dom.feedback.classes)
                          ELSE prevOutcome
        /\ UNCHANGED <<viewCount, adminVars, storeVars>>

\* the student clicks the row of option i outside its radio input (on the
\* row or on its label)
RowClick(i) ==
    /\ ~dom.modalHidden
    /\ i \in DOMAIN dom.options
    /\ dom' = OptionDivClick(dom, i, FALSE)
    /\ thrown' = FALSE
    /\ notice' = FALSE
    /\ lastEvent' = "rowClick"
    /\ UNCHANGED <<viewCount, zone, branch, calls, errors, parentRuns, evals,
                   prevOutcome, adminVars, storeVars>>

\* the student clicks the radio input of option i; a disabled input
\* receives no click
RadioClick(i) ==
    /\ ~dom.modalHidden
    /\ i \in DOMAIN dom.options
    /\ ~dom.options[i].disabled
    /\ dom' = OptionDivClick(dom, i, TRUE)
    /\ thrown' = FALSE
    /\ notice' = FALSE
    /\ lastEvent' = "radioClick"
    /\ UNCHANGED <<viewCount, zone, branch, calls, errors, parentRuns, evals,
                   prevOutcome, adminVars, storeVars>>

\* the student clicks a button of the modal; only a button that is
\* displayed (the modal and the button are not 'hidden') can be clicked.
\* b is "submit" or "close": the node with that id in the document.
\* No code path removes 'hidden' from the close button that is in the
\* document (see HideSubmitShowContinue), so the close listener, though
\* attached, is never reached by a click.
ButtonClick(b) ==
    /\ ~dom.modalHidden
    /\ ~dom[b].hidden
    /\ dom[b].listeners # <<>>
    /\ LET r == IF b = "submit"
                THEN RunSubmitListeners(dom, dom.submit.listeners)
                ELSE [dom |-> RunCloseListeners(dom, dom.close.listeners),
                      notice |-> FALSE, thrown |-> FALSE, evaluated |-> 0]
       IN  /\ dom' = r.dom
           /\ thrown' = r.thrown
           /\ notice' = r.notice
           /\ evals' = Min(evals + r.evaluated, MaxEvals)
    /\ lastEvent' = b
    /\ UNCHANGED <<viewCount, zone, branch, calls, errors, parentRuns,
                   prevOutcome, adminVars, storeVars>>

Next ==
    \/ \E z \in StoredZones, nesting \in 0..MaxNesting : ZoneClick(z, nesting)
    \/ \E i \in 1..MaxOptions : RowClick(i)
    \/ \E i \in 1..MaxOptions : RadioClick(i)
    \/ \E b \in {"submit", "close"} : ButtonClick(b)

Spec == Init /\ [][Next]_vars

\* the click handler alone, over every combination of stored fields
NextResolve ==
    \E z \in AllZoneRecords, nesting \in 0..MaxNesting : ZoneClick(z, nesting)

SpecResolve == Init /\ [][NextResolve]_vars

-----------------------------------------------------------------------------
(* The zone editor: inputs *)

\* the values the first dialog resolves with for n images, null when it is
\* cancelled: the label as typed, and one of the options of the action
\* selector (lines 644-653), which are '', 'banner', 'quiz' and
\* img.index.toString() of every image
EditValues(n) ==
    {Null} \cup {[label |-> l, action |-> a] :
                    l \in {EmptyString, Str(<<" ", "B">>)},
                    a \in {EmptyString, Text("banner"), Text("quiz")}
                          \cup {Str(<<DigitChar(i)>>) : i \in 0..(n - 1)}}

\* the options of the correct-answer selector (lines 200-205)
CorrectAnswerOptions == {Str(<<DigitChar(i)>>) : i \in 0..(MaxOptions - 1)}

\* quiz forms the editor is driven with: every combination of filled and
\* blank answer fields, every choice of the selector
EditorForms ==
    {FormData(q, a1, a2, a3, a4, c, r) :
        q \in {Text("Q?"), Str(<<" ">>)},
        a1 \in {Text("A"), EmptyString},
        a2 \in {Text("B"), EmptyString},
        a3 \in {Text("C"), EmptyString},
        a4 \in {Text("D"), EmptyString},
        c \in CorrectAnswerOptions,
        r \in BOOLEAN}

\* zones as the editor leaves them, one of each kind
NoneZone ==
    AdminZone(Text("A"), NoZone)

BannerZone ==
    AdminZone(Text("A"),
              Zone(Text("banner"), Text("Hi"), Text("top"), Undefined, NoArray,
                   Undefined, Undefined, Undefined))

TargetedZone ==
    AdminZone(Undefined,
              Zone(Undefined, Undefined, Undefined, Undefined, NoArray,
                   Undefined, Undefined, IntNum(0)))

QuizZone ==
    AdminZone(Text("A"),
              Zone(Text("quiz"), Undefined, Undefined, Text("Q?"), TwoAnswers,
                   IntNum(0), Bool(TRUE), Undefined))

EditorZones == {NoneZone, BannerZone, TargetedZone, QuizZone}

-----------------------------------------------------------------------------
(* The zone editor: handlers.  index is the position in adminState.zones   *)
(* counted from 1.                                                         *)

Txn(op, outcome, index, kind, priorKind, message, before) ==
    [op |-> op, outcome |-> outcome, index |-> index, kind |-> kind,
     priorKind |-> priorKind, message |-> message, before |-> before]

\* the callback of the first dialog of editAdminZone (lines 686-739).
\* updateAdminZonesList and redrawAdminCanvas (lines 720-721, 735-736)
\* render the list and the canvas from adminState.zones and write nothing
\* to it.
EditAdminZone(index, values) ==
    /\ editor.phase = "idle"
    /\ index \in 1..Len(zones)
    /\ LET prior == CurrentKind(zones[index])
           labelled == UpdateLabel(zones[index], values.label)
           selectedAction == values.action
       IN  IF values = Null
           THEN /\ UNCHANGED <<zones, editor>>
                /\ txn' = Txn("edit", "cancelled", index, "none", prior, "",
                              zones)
           ELSE IF selectedAction \in {Text("banner"), Text("quiz")}
           THEN /\ zones' = [zones EXCEPT ![index] = labelled]
                /\ editor' = [phase |-> selectedAction.s[1], index |-> index,
                              formData |-> <<>>]
                /\ txn' = Txn("edit", "open", index, selectedAction.s[1],
                              prior, "", zones)
           ELSE IF selectedAction # EmptyString
           THEN /\ zones' = [zones EXCEPT
                                ![index] = SetTargetView(labelled, selectedAction)]
                /\ editor' = Idle
                /\ txn' = Txn("edit", "committed", index, "targeted", prior,
                              "", <<>>)
           ELSE /\ zones' = [zones EXCEPT ![index] = SetNoAction(labelled)]
                /\ editor' = Idle
                /\ txn' = Txn("edit", "committed", index, "none", prior, "",
                              <<>>)
    /\ UNCHANGED <<viewCount, viewVars, storeVars>>

\* the banner dialog resolves: cancelled, or with a text and a position;
\* a blank text is refused and the dialog is shown again
BannerDialog(values) ==
    /\ editor.phase = "banner"
    /\ LET index == editor.index
       IN  IF values = Null
           THEN /\ UNCHANGED zones
                /\ editor' = Idle
                /\ txn' = [txn EXCEPT !.outcome = "cancelled"]
           ELSE IF ~NonBlank(values.text)
           THEN /\ UNCHANGED <<zones, editor>>
                /\ txn' = [txn EXCEPT !.outcome = "rejected",
                                      !.message = "Banner text is required."]
           ELSE /\ zones' = [zones EXCEPT
                                ![index] = CommitBanner(zones[index],
                                                        values.text,
                                                        values.position)]
                /\ editor' = Idle
                /\ txn' = [txn EXCEPT !.outcome = "committed", !.message = "",
                                      !.before = <<>>]
    /\ UNCHANGED <<viewCount, viewVars, storeVars>>

\* the first dialog of showQuizConfigModal resolves: cancelled, or with
\* the form's values, which validateQuizData accepts or refuses; a refused
\* form is shown again; an accepted one is committed unless rationales
\* were asked for
QuizDialog(formData) ==
    /\ editor.phase = "quiz"
    /\ LET index == editor.index
           message == validateQuizData(formData)
       IN  IF formData = Null
           THEN /\ UNCHANGED zones
                /\ editor' = Idle
                /\ txn' = [txn EXCEPT !.outcome = "cancelled"]
           ELSE IF message # Valid
           THEN /\ UNCHANGED <<zones, editor>>
                /\ txn' = [txn EXCEPT !.outcome = "rejected",
                                      !.message = message]
           ELSE IF formData.showRationale
           THEN /\ UNCHANGED zones
                /\ editor' = [phase |-> "rationale", index |-> index,
                              formData |-> formData]
                /\ txn' = [txn EXCEPT !.outcome = "open", !.message = ""]
           ELSE /\ zones' = [zones EXCEPT
                                ![index] = CommitQuiz(zones[index], formData,
                                                      <<>>)]
                /\ editor' = Idle
                /\ txn' = [txn EXCEPT !.outcome = "committed", !.message = "",
                                      !.before = <<>>]
    /\ UNCHANGED <<viewCount, viewVars, storeVars>>

\* the second dialog of showQuizConfigModal resolves: cancelled, or with
\* the rationales, and the quiz is committed
RationaleDialog(rationales) ==
    /\ editor.phase = "rationale"
    /\ LET index == editor.index
       IN  IF rationales = Null
           THEN /\ UNCHANGED zones
                /\ editor' = Idle
                /\ txn' = [txn EXCEPT !.outcome = "cancelled"]
           ELSE /\ zones' = [zones EXCEPT
                                ![index] = CommitQuiz(zones[index],
                                                      editor.formData,
                                                      rationales.a)]
                /\ editor' = Idle
                /\ txn' = [txn EXCEPT !.outcome = "committed",
                                      !.before = <<>>]
    /\ UNCHANGED <<viewCount, viewVars, storeVars>>

\* the admin view with a lesson's zones loaded into the editor
InitEditor ==
    /\ viewCount \in 1..MaxViews
    /\ dom = InitialDom
    /\ zone = NoZone
    /\ branch = "none"
    /\ calls = <<>>
    /\ errors = 0
    /\ parentRuns = 0
    /\ thrown = FALSE
    /\ notice = FALSE
    /\ lastEvent = "none"
    /\ evals = 0
    /\ prevOutcome = {}
    /\ zones \in {<<z>> : z \in EditorZones}
    /\ editor = Idle
    /\ txn = NoTxn
    /\ sheet = <<>>
    /\ written = NothingWritten
    /\ loaded = NoCall
    /\ folders = {}

NextEditor ==
    \/ \E index \in 1..Len(zones), values \in EditValues(viewCount) :
            EditAdminZone(index, values)
    \/ \E t \in {Text("Hi"), Str(<<" ">>)}, p \in {Text("top"), Text("bottom")} :
            \E values \in {Null, [text |-> t, position |-> p]} :
                BannerDialog(values)
    \/ \E formData \in EditorForms \cup {Null} : QuizDialog(formData)
    \/ \E rationales \in {Null, [t |-> "rationales",
                                 a |-> [i \in 1..MaxOptions |-> Text("why")]]} :
            RationaleDialog(rationales)

SpecEditor == InitEditor /\ [][NextEditor]_vars

-----------------------------------------------------------------------------
(* The editor followed by the student's click: any number of edits, then   *)
(* one click on a zone of the list the editor holds                        *)

\* the zone at position index is clicked in the lesson view
ClickEdited(index) ==
    /\ editor.phase = "idle"
    /\ index \in 1..Len(zones)
    /\ ZoneClick(zones[index], 0)

NextEditClick ==
    \/ lastEvent = "none" /\ NextEditor
    \/ lastEvent = "none" /\ \E index \in 1..MaxZones : ClickEdited(index)

SpecEditClick == InitEditor /\ [][NextEditClick]_vars

-----------------------------------------------------------------------------
(* What the editor shows for a stored record, next to what a click on the  *)
(* record does                                                             *)

\* the targetInfo of a zone in updateAdminZonesList (lines 775-790): the
\* kind of the line that is shown, and whether computing it throws a
\* TypeError (.length of a bannerText or quizQuestion that is undefined or
\* null)
TargetInfo(z) ==
    IF z.actionType = Text("banner")
    THEN [kind |-> "banner", thrown |-> z.bannerText \in {Undefined, Null}]
    ELSE IF z.actionType = Text("quiz")
    THEN [kind |-> "quiz", thrown |-> z.quizQuestion \in {Undefined, Null}]
    ELSE IF z.targetView # Undefined /\ z.targetView # Null
    THEN [kind |-> "targeted", thrown |-> FALSE]
    ELSE [kind |-> "none", thrown |-> FALSE]

\* editAdminZone(index) up to the first dialog (lines 641-663): the action
\* that is preselected; zone.targetView.toString() throws a TypeError when
\* targetView is null
OpenEditZone(index) ==
    /\ editor.phase = "idle"
    /\ index \in 1..Len(zones)
    /\ LET z == zones[index]
       IN  txn' = IF /\ z.actionType \notin {Text("banner"), Text("quiz")}
                     /\ z.targetView = Null
                  THEN Txn("open", "thrown", index, "none", "none", "", <<>>)
                  ELSE Txn("open", "shown", index, CurrentKind(z), "none", "",
                           <<>>)
    /\ UNCHANGED <<viewCount, viewVars, zones, editor, storeVars>>

\* updateAdminZonesList(): the line of the zone at position index, and
\* whether the rendering of the list throws
UpdateAdminZonesList(index) ==
    /\ editor.phase = "idle"
    /\ index \in 1..Len(zones)
    /\ txn' = Txn("list",
                  IF \E i \in 1..Len(zones) : TargetInfo(zones[i]).thrown
                  THEN "thrown" ELSE "shown",
                  index, TargetInfo(zones[index]).kind, "none", "", <<>>)
    /\ UNCHANGED <<viewCount, viewVars, zones, editor, storeVars>>

\* the editor holds one stored record, with any combination of fields
InitShown ==
    /\ viewCount \in 1..MaxViews
    /\ dom = InitialDom
    /\ zone = NoZone
    /\ branch = "none"
    /\ calls = <<>>
    /\ errors = 0
    /\ parentRuns = 0
    /\ thrown = FALSE
    /\ notice = FALSE
    /\ lastEvent = "none"
    /\ evals = 0
    /\ prevOutcome = {}
    /\ zones \in {<<AdminZone(Undefined, z)>> : z \in AllZoneRecords}
    /\ editor = Idle
    /\ txn = NoTxn
    /\ sheet = <<>>
    /\ written = NothingWritten
    /\ loaded = NoCall
    /\ folders = {}

NextShown ==
    \/ \E index \in 1..MaxZones : OpenEditZone(index)
    \/ \E index \in 1..MaxZones : UpdateAdminZonesList(index)
    \/ lastEvent = "none" /\ \E index \in 1..MaxZones : ClickEdited(index)

SpecShown == InitShown /\ [][NextShown]_vars

-----------------------------------------------------------------------------
(* validateQuizData on its own, over every form *)

\* a field of the form: missing, empty, whitespace only, or filled
FieldInputs(filled) == {Undefined, EmptyString, Str(<<" ">>), Text(filled)}

\* the quiz form is filled in and not yet submitted
InitValidate ==
    /\ viewCount \in 1..MaxViews
    /\ dom = InitialDom
    /\ zone = NoZone
    /\ branch = "none"
    /\ calls = <<>>
    /\ errors = 0
    /\ parentRuns = 0
    /\ thrown = FALSE
    /\ notice = FALSE
    /\ lastEvent = "none"
    /\ evals = 0
    /\ prevOutcome = {}
    /\ zones = <<>>
    /\ editor \in {[phase |-> "form", index |-> 0,
                    formData |-> FormData(q, a1, a2, a3, a4, c, FALSE)] :
                        q \in FieldInputs("Q?") \cup {Str(<<" ", "Q?", " ">>)},
                        a1 \in FieldInputs("A"), a2 \in FieldInputs("B"),
                        a3 \in FieldInputs("C"), a4 \in FieldInputs("D"),
                        c \in CorrectAnswerOptions}
    /\ txn = NoTxn
    /\ sheet = <<>>
    /\ written = NothingWritten
    /\ loaded = NoCall
    /\ folders = {}

\* validateQuizData(formData) is called on the form
Validate ==
    /\ editor.phase = "form"
    /\ txn.op = "none"
    /\ LET message == validateQuizData(editor.formData)
       IN  txn' = Txn("validate",
                      IF message = Valid THEN "accepted" ELSE "rejected",
                      0, "quiz", "none", message, <<>>)
    /\ UNCHANGED <<viewCount, viewVars, zones, editor, storeVars>>

NextValidate == Validate

SpecValidate == InitValidate /\ [][NextValidate]_vars



-----------------------------------------------------------------------------
(* Deleting a zone (part_000:948-953) *)

Max(a, b) == IF a >= b THEN a ELSE b

\* variant of Splice: the delete count is left out, which removes
\* everything from start on
Splice_ToEnd(list, start, deleteCount) ==
    LET len == Len(list)
        actualStart == IF start < 0 THEN Max(len + start, 0)
                       ELSE Min(start, len)
    IN  SubSeq(list, 1, actualStart)

\* Array.prototype.splice(start, deleteCount): the array afterwards; start
\* counts from 0, a negative start counts from the end
Splice(list, start, deleteCount) ==
    LET len == Len(list)
        actualStart == IF start < 0 THEN Max(len + start, 0)
                       ELSE Min(start, len)
        count == Min(Max(deleteCount, 0), len - actualStart)
    IN  SubSeq(list, 1, actualStart)
        \o SubSeq(list, actualStart + count + 1, len)

\* adminState.zones.splice(index, 1), for the zone at position index
\* (counted from 1) of the list
DeleteZone(index) ==
    /\ editor.phase = "idle"
    /\ index \in 1..Len(zones)
    /\ zones' = Splice(zones, index - 1, 1)
    /\ txn' = Txn("delete", "committed", index, "none",
                  CurrentKind(zones[index]), "", zones)
    /\ UNCHANGED <<viewCount, viewVars, editor, storeVars>>

InitDelete ==
    /\ viewCount \in 1..MaxViews
    /\ dom = InitialDom
    /\ zone = NoZone
    /\ branch = "none"
    /\ calls = <<>>
    /\ errors = 0
    /\ parentRuns = 0
    /\ thrown = FALSE
    /\ notice = FALSE
    /\ lastEvent = "none"
    /\ evals = 0
    /\ prevOutcome = {}
    \* lists of every length up to MaxZones, of zones of every kind
    /\ zones \in UNION {[1..n -> EditorZones] : n \in 1..MaxZones}
    /\ editor = Idle
    /\ txn = NoTxn
    /\ sheet = <<>>
    /\ written = NothingWritten
    /\ loaded = NoCall
    /\ folders = {}

NextDelete == \E index \in 1..MaxZones : DeleteZone(index)

SpecDelete == InitDelete /\ [][NextDelete]_vars

-----------------------------------------------------------------------------
(* The lesson sheet: inputs and calls of the server functions *)

DriveUrl == Str(<<"https://", "drive.google.com/file/d/", "ABC123", "/view">>)

\* a zones cell that is not JSON: the text is cut off after '[{'
CutOffCell == Str(<<"[", "{">>)

\* zones cells that do not hold an array: the cut off text, and a cell
\* that is JSON but an object, {"label":"A"}
CorruptCells == {CutOffCell, Str(StringifyZone(NoneZone))}

\* an image slot as found in the sheet: filled in or blank description
\* and URL, with a zones cell that is blank, valid or corrupt
SlotInputs ==
    {<<d[1], d[2], z>> :
        d \in {<<Text("Desc"), DriveUrl>>, <<EmptyString, EmptyString>>},
        z \in {EmptyString, JSONStringify(<<BannerZone>>)} \cup CorruptCells}

RECURSIVE Flatten(_)
Flatten(slots) ==
    IF slots = <<>> THEN <<>> ELSE Head(slots) \o Flatten(Tail(slots))

Row(title, slots) == <<title, Text("About")>> \o Flatten(slots)

\* a title as createLesson stores it, untrimmed
BioTitle == Str(<<" ", "Bio">>)

\* sheets of two lessons whose titles differ after trimming: "Chem" with
\* one image and no zones, and BioTitle with every choice of slots
Sheets ==
    {<<Row(Text("Chem"),
           [k \in 1..MaxImages |->
               IF k = 1
               THEN <<Text("Flask"), Text("https://example.org/cell.png"),
                      EmptyString>>
               ELSE <<EmptyString, EmptyString, EmptyString>>]),
       Row(BioTitle, slots)>> : slots \in [1..MaxImages -> SlotInputs]}

InitStore ==
    /\ viewCount \in 1..MaxViews
    /\ dom = InitialDom
    /\ zone = NoZone
    /\ branch = "none"
    /\ calls = <<>>
    /\ errors = 0
    /\ parentRuns = 0
    /\ thrown = FALSE
    /\ notice = FALSE
    /\ lastEvent = "none"
    /\ evals = 0
    /\ prevOutcome = {}
    /\ zones = <<>>
    /\ editor = Idle
    /\ txn = NoTxn
    /\ sheet \in Sheets
    /\ written = NothingWritten
    /\ loaded = NoCall
    /\ folders = {}

\* google.script.run.getLessonData(lessonName)
GetLessonData(lessonName) ==
    /\ loaded' = [op |-> "getLessonData", lessonName |-> lessonName,
                  success |-> TRUE, views |-> getLessonData(sheet, lessonName)]
    /\ UNCHANGED <<viewCount, viewVars, adminVars, sheet, written, folders>>

\* the editor saves the zone list zs of image imageIndex:
\* zonesJson = JSON.stringify(adminState.zones) (part_000:961) is sent
\* with updateLessonImage
UpdateLessonImage(lessonName, imageIndex, imageDescription, imageUrl, zs) ==
    LET r == updateLessonImage(sheet, lessonName, imageIndex,
                               imageDescription, imageUrl, JSONStringify(zs))
    IN  /\ sheet' = r.data
        /\ written' = IF r.success
                      THEN [lessonName |-> lessonName,
                            imageIndex |-> imageIndex, zones |-> zs,
                            any |-> TRUE]
                      ELSE written
        /\ loaded' = [op |-> "updateLessonImage", lessonName |-> lessonName,
                      success |-> r.success, views |-> <<>>]
        /\ UNCHANGED <<viewCount, viewVars, adminVars, folders>>

\* google.script.run.getLessonForEditing(lessonName): the editor loads
\* the images of the lesson and offers img.index of each as a target
\* (part_000:645-653)
GetLessonForEditing(lessonName) ==
    LET r == getLessonForEditing(sheet, lessonName)
    IN  /\ loaded' = [op |-> "getLessonForEditing", lessonName |-> lessonName,
                      success |-> r.success, views |-> r.images]
        /\ UNCHANGED <<viewCount, viewVars, adminVars, sheet, written, folders>>

\* the functions are called with the titles of the sheet as getLessons
\* hands them out and with a name that is not in it; the editor saves an
\* empty list, a quiz and a banner, or a zone whose label holds a quote
\* and a backslash
NextStore ==
    \/ \E lessonName \in {Text("Chem"), BioTitle, Text("Nope")} :
            GetLessonData(lessonName)
    \/ \E lessonName \in {Text("Chem"), BioTitle, Text("Nope")} :
            GetLessonForEditing(lessonName)
    \/ \E lessonName \in {BioTitle, Text("Nope")},
          imageIndex \in 0..(MaxImages - 1),
          zs \in {<<>>, <<QuizZone, BannerZone>>,
                  <<AdminZone(Str(<<"say", Quote, "hi", Backslash>>),
                              Zone(Undefined, Undefined, Undefined, Undefined,
                                   NoArray, Undefined, Undefined, IntNum(1))),
                    NoneZone>>} :
            UpdateLessonImage(lessonName, imageIndex, Text("New"), DriveUrl, zs)

SpecStore == InitStore /\ [][NextStore]_vars

-----------------------------------------------------------------------------
(* Creating lessons *)

\* the sheet holds no more than MaxRows lessons
MaxRows == 3

\* google.script.run.createLesson(lessonTitle, lessonDescription)
CreateLesson(lessonTitle, lessonDescription, driveFails) ==
    LET r == createLesson(sheet, folders, lessonTitle, lessonDescription,
                          driveFails)
    IN  /\ Len(sheet) < MaxRows
        /\ sheet' = r.data
        /\ folders' = r.folders
        /\ loaded' = [op |-> "createLesson", lessonName |-> lessonTitle,
                      success |-> r.success, views |-> <<>>]
        /\ UNCHANGED <<viewCount, viewVars, adminVars, written>>

\* an empty sheet, or one lesson with its folder
InitCreate ==
    /\ viewCount \in 1..MaxViews
    /\ dom = InitialDom
    /\ zone = NoZone
    /\ branch = "none"
    /\ calls = <<>>
    /\ errors = 0
    /\ parentRuns = 0
    /\ thrown = FALSE
    /\ notice = FALSE
    /\ lastEvent = "none"
    /\ evals = 0
    /\ prevOutcome = {}
    /\ zones = <<>>
    /\ editor = Idle
    /\ txn = NoTxn
    /\ \/ sheet = <<>> /\ folders = {}
       \/ /\ sheet = <<Row(BioTitle, [k \in 1..MaxImages |->
                            <<EmptyString, EmptyString, EmptyString>>])>>
          /\ folders = {BioTitle}
    /\ written = NothingWritten
    /\ loaded = NoCall

\* titles that are new, equal to a stored one, equal to it after
\* trimming only, empty, and blank
NextCreate ==
    \E lessonTitle \in {Text("Bio"), BioTitle, Str(<<"Bio", " ">>),
                         Text("Zoo"), EmptyString, Str(<<" ">>)},
       driveFails \in BOOLEAN :
        CreateLesson(lessonTitle, Text("About"), driveFails)

SpecCreate == InitCreate /\ [][NextCreate]_vars

-----------------------------------------------------------------------------
(* Properties of the click handler *)

NonEmptyString(v) == v.t = "string" /\ v.s # <<>>

\* the precedence rule of section 4.1, in the words of the specification
ClaimedKind(z) ==
    IF z.actionType = Text("banner") /\ NonEmptyString(z.bannerText)
    THEN "banner"
    ELSE IF z.actionType = Text("quiz") /\ NonEmptyString(z.quizQuestion)
    THEN "quiz"
    ELSE IF z.targetView.t \notin {"undefined", "null"}
    THEN "targeted"
    ELSE "sequential"

CallOps == {calls[i].op : i \in DOMAIN calls}

\* C1: the branch a click takes is the one chosen by the first matching rule
\* of (1) banner with non-empty text, (2) quiz with non-empty question,
\* (3) targetView present and not null, (4) sequential; a banner or quiz
\* record never navigates, and a record without actionType and targetView
\* advances sequentially.
C1_Precedence ==
    lastEvent = "zoneClick" =>
        /\ branch = ClaimedKind(zone)
        /\ branch = "banner" => CallOps = {"showZoneBanner"}
        /\ branch = "quiz" => CallOps = {"showQuizModal"}
        /\ branch = "targeted" => CallOps \subseteq {"navigateToView", "zoomToNextView"}
        /\ branch = "sequential" => CallOps = {"zoomToNextView"} /\ errors = 0
        /\ (zone.actionType = Undefined /\ zone.targetView = Undefined)
              => CallOps = {"zoomToNextView"}

\* a record with valid banner fields and a valid targetView was clicked and
\* showed the banner
C1_Witness ==
    /\ lastEvent = "zoneClick"
    /\ zone.actionType = Text("banner")
    /\ zone.bannerText = Text("Hi")
    /\ zone.targetView = IntNum(1)
    /\ viewCount = 2
    /\ CallOps = {"showZoneBanner"}

\* number of things the last click caused: banner displays, navigations,
\* sequential advancements, and a quiz session if one was started
EffectCount ==
    Cardinality({i \in DOMAIN calls : calls[i].op # "showQuizModal"})
    + (IF branch = "quiz" /\ ~thrown /\ ~dom.modalHidden THEN 1 ELSE 0)

\* C2: every click on a zone causes exactly one of banner display, quiz
\* session start, navigation to a target or sequential advancement, and
\* reaches no parent handler.
C2_ExactlyOneAction ==
    lastEvent = "zoneClick" => EffectCount = 1 /\ parentRuns = 0

\* ToNumber of a stored value: the number a comparison such as 0 <= t reads
NumberOf(v) ==
    CASE v.t = "number" -> v
      [] v.t = "string" /\ v.s # <<>> /\ (\A i \in DOMAIN v.s : v.s[i] \in Digits)
            -> IntNum(ReadDigits(v.s, 1, 0))
      [] OTHER -> NaN

\* C3: a click on a Targeted record with stored index t in a lesson of n
\* views navigates to exactly view t when 0 <= t < n, and otherwise (t out
\* of range or not a number) reports an error without throwing, advances
\* sequentially and requests no navigation.
C3_TargetValidated ==
    (lastEvent = "zoneClick" /\ branch = "targeted") =>
        LET t == NumberOf(zone.targetView)
        IN  IF t.t = "number" /\ 0 <= t.n /\ t.n < 2 * viewCount
            THEN calls = <<Call("navigateToView", <<t>>)>> /\ errors = 0
            ELSE /\ calls = <<Call("zoomToNextView", <<>>)>>
                 /\ errors = 1
                 /\ ~thrown


-----------------------------------------------------------------------------
(* Properties of the quiz session *)

\* the state of the session on screen, read off the modal: no session has
\* been opened yet, or the modal shows the question without feedback
\* (Presented), with feedback (Answered), or has been dismissed (Closed)
Phase(d) ==
    IF d.modalHidden
    THEN (IF d.submit.listeners = <<>> THEN "NoSession" ELSE "Closed")
    ELSE (IF d.feedback.hidden THEN "Presented" ELSE "Answered")

\* the zone whose quiz the modal is running
SessionZone == dom.submit.listeners[1]

SelectedRows(d) == {i \in DOMAIN d.options : d.options[i].selected}

\* C4: within one session the only transitions are Presented -> Answered
\* (submit with a selection) and Answered -> Closed (dismiss); no session is
\* evaluated twice and a Closed session handles no event.
C4_LinearSession ==
    [][lastEvent' # "zoneClick" =>
          /\ \/ Phase(dom') = Phase(dom)
             \/ /\ Phase(dom) = "Presented"
                /\ Phase(dom') = "Answered"
                /\ lastEvent' = "submit"
                /\ CheckedIndex(dom.options) # -1
             \/ /\ Phase(dom) = "Answered"
                /\ Phase(dom') = "Closed"
                /\ lastEvent' = "close"
          /\ Phase(dom) = "Closed" => dom' = dom
          /\ evals' <= 1]_vars

\* C5: once a session is Answered no later event of that session changes
\* the selected option, the correctness or the feedback.
C5_SelectionFrozen ==
    [][(Phase(dom) = "Answered" /\ lastEvent' # "zoneClick") =>
          /\ CheckedIndex(dom'.options) = CheckedIndex(dom.options)
          /\ SelectedRows(dom') = SelectedRows(dom)
          /\ dom'.feedback = dom.feedback]_vars

\* C6: after a submit with a selection the submit button on screen is
\* hidden and the continue button on screen is shown; before it the
\* continue button is hidden.
C6_ControlsSwitch ==
    /\ Phase(dom) = "Answered" => dom.submit.hidden /\ ~dom.close.hidden
    /\ Phase(dom) = "Presented" => dom.close.hidden

\* C7: a submit with no option selected changes nothing in the modal and
\* evaluates nothing; it only raises the 'No Selection' notice.
C7_NoSelectionSubmit ==
    [][(lastEvent' = "submit" /\ CheckedIndex(dom.options) = -1) =>
          /\ dom' = dom
          /\ Phase(dom') = "Presented"
          /\ notice'
          /\ ~thrown'
          /\ evals' = evals]_vars

\* a submit without a selection has just been handled
C7_Witness ==
    /\ lastEvent = "submit"
    /\ notice
    /\ Phase(dom) = "Presented"
    /\ Len(dom.options) = 3

\* C8: every session that a click on a quiz zone starts begins Presented,
\* with one unmarked, unselected, enabled row per answer, feedback hidden,
\* submit shown and continue hidden, whatever the previous session showed.
C8_FreshSession ==
    (lastEvent = "zoneClick" /\ branch = "quiz" /\ ~thrown) =>
        /\ Phase(dom) = "Presented"
        /\ dom.question = zone.quizQuestion
        /\ Len(dom.options) = Len(zone.quizAnswers.a)
        /\ \A i \in DOMAIN dom.options :
              dom.options[i] = Option(zone.quizAnswers.a[i].text)
        /\ dom.feedback.hidden
        /\ dom.feedback.classes = {}
        /\ ~dom.submit.hidden
        /\ dom.close.hidden
        /\ evals = 0

\* a session on a three-answer quiz has just started after a session that
\* ended with 'incorrect' feedback
C8_Witness ==
    /\ lastEvent = "zoneClick"
    /\ branch = "quiz"
    /\ ~thrown
    /\ "incorrect" \in prevOutcome
    /\ Len(dom.options) = 3

\* a submit has just evaluated the selection
Evaluated == lastEvent = "submit" /\ ~notice

\* C9: a submitted selection equal to the correct index gives the
\* affirmative marker and an empty rationale text, whatever
\* quizShowRationale and the answers' rationales are.
C9_CorrectFeedback ==
    (Evaluated /\ IntNum(CheckedIndex(dom.options)) = SessionZone.quizCorrectIndex) =>
        /\ ~dom.feedback.hidden
        /\ dom.feedback.icon = "check"
        /\ dom.feedback.text = "Correct!"
        /\ dom.feedback.rationale = EmptyString
        /\ ~thrown

\* the correct answer was submitted on a zone that shows rationales and
\* whose correct answer carries a rationale string
C9_Witness ==
    /\ Evaluated
    /\ IntNum(CheckedIndex(dom.options)) = SessionZone.quizCorrectIndex
    /\ SessionZone.quizShowRationale = Bool(TRUE)
    /\ NonEmptyString(
          SessionZone.quizAnswers.a[CheckedIndex(dom.options) + 1].rationale)

C18_NeverThrows == ~thrown

-----------------------------------------------------------------------------
(* Properties of the zone editor *)

ActionKeys == BannerAndQuizKeys \cup {"targetView"}

\* the keys each kind of action owns
KindKeys(kind) ==
    CASE kind = "none" -> {}
      [] kind = "banner" -> {"actionType", "bannerText", "bannerPosition"}
      [] kind = "quiz" -> {"actionType", "quizQuestion", "quizAnswers",
                           "quizCorrectIndex", "quizShowRationale"}
      [] kind = "targeted" -> {"targetView"}

\* key k is on the object (whatever its value, falsy ones included)
Present(z, k) == z[k] # Absent(k)

CarriesExactly(z, kind) ==
    /\ \A k \in ActionKeys : Present(z, k) <=> k \in KindKeys(kind)
    /\ kind \in {"banner", "quiz"} => z.actionType = Text(kind)

\* C11: after an edit that committed, from any prior kind to any new kind,
\* the zone carries exactly the keys of the new kind; the key of every
\* other kind is absent from the object, not merely falsy.
C11_ExactlyNewKind ==
    (txn.op = "edit" /\ txn.outcome = "committed")
        => CarriesExactly(zones[txn.index], txn.kind)

\* a quiz zone was switched to targeted navigation
C11_Witness ==
    /\ txn.op = "edit" /\ txn.outcome = "committed"
    /\ txn.priorKind = "quiz" /\ txn.kind = "targeted"
    /\ IsInteger(zones[txn.index].targetView)
    /\ ~Present(zones[txn.index], "quizAnswers")

\* 0 <= quizCorrectIndex < quizAnswers.length and 2 <= length <= 4
WellFormedQuiz(z) ==
    /\ z.quizAnswers.t = "array"
    /\ IsInteger(z.quizCorrectIndex)
    /\ 0 <= IntOf(z.quizCorrectIndex)
    /\ IntOf(z.quizCorrectIndex) < Len(z.quizAnswers.a)
    /\ 2 <= Len(z.quizAnswers.a)
    /\ Len(z.quizAnswers.a) <= MaxOptions

\* C12: every quiz zone the editor holds after a commit has a correct
\* index that addresses one of its answers, and two to four answers,
\* whichever answer fields were filled and whichever selector choice passed
\* validation.
C12_QuizWellFormed ==
    \A i \in 1..Len(zones) :
        zones[i].actionType = Text("quiz") => WellFormedQuiz(zones[i])

\* a quiz was committed from a form with a blank field among the filled
\* ones, with the last of its three answers marked correct
C12_Witness ==
    /\ txn.op = "edit" /\ txn.outcome = "committed" /\ txn.kind = "quiz"
    /\ Len(zones[txn.index].quizAnswers.a) = 3
    /\ zones[txn.index].quizAnswers.a[3].text = Text("D")
    /\ zones[txn.index].quizCorrectIndex = IntNum(2)

\* C15: when the validation of the values collected for the new action
\* fails, the zone list is exactly as it was before the edit began: no key
\* deleted, none written, the label unchanged.
C15_RejectedLeavesZones ==
    (txn.op = "edit" /\ txn.outcome = "rejected") => zones = txn.before

\* C16: when a dialog of the edit is cancelled (the label and action
\* dialog, the first or the second quiz dialog), the zone list is exactly
\* as it was before the edit began.
C16_CancelledLeavesZones ==
    (txn.op = "edit" /\ txn.outcome = "cancelled") => zones = txn.before

\* C17: deleting the zone at a valid position removes exactly that zone;
\* the zones before it and after it are unchanged and keep their order,
\* whatever kind of action the deleted zone and the other zones carry.
C17_DeleteByPosition ==
    txn.op = "delete"
        => /\ Len(zones) = Len(txn.before) - 1
           /\ \A j \in 1..Len(zones) :
                zones[j] = IF j < txn.index THEN txn.before[j]
                           ELSE txn.before[j + 1]

\* the quiz zone in the middle of a banner zone and a targeted zone was
\* deleted
C17_Witness ==
    /\ txn.op = "delete" /\ txn.index = 2
    /\ txn.before = <<BannerZone, QuizZone, TargetedZone>>
    /\ zones = <<BannerZone, TargetedZone>>

-----------------------------------------------------------------------------
(* Properties of validateQuizData *)

\* the field Answer i+1 of the form, which the selector value i names
AnswerField(formData, i) ==
    <<formData.answer1, formData.answer2, formData.answer3,
      formData.answer4>>[i + 1]

\* a field is blank: missing, empty, or nothing but whitespace
Blank(v) == v.t # "string" \/ \A i \in 1..Len(v.s) : v.s[i] = " "

\* the number of answer fields that are not blank
Supplied(formData) ==
    Cardinality({i \in 0..(MaxOptions - 1) : ~Blank(AnswerField(formData, i))})

\* the field the correct-answer selector points at
ChosenField(formData) ==
    AnswerField(formData, IntOf(ParseInt(formData.correctAnswer)))

\* C13: a form with a question and two or more answers is refused with
\* "the selected correct answer must be one of the provided options"
\* exactly when the field chosen in the selector (Answer 1-4) is blank, and
\* is accepted otherwise, also when a blank field precedes the chosen one.
C13_ChosenAnswerSupplied ==
    (/\ txn.op = "validate"
     /\ ~Blank(editor.formData.quizQuestion)
     /\ Supplied(editor.formData) >= 2)
        => /\ txn.message = CorrectNotProvided
                <=> Blank(ChosenField(editor.formData))
           /\ txn.message = Valid
                <=> ~Blank(ChosenField(editor.formData))

\* C14: validateQuizData refuses every form whose question is empty or
\* whitespace only with "quiz question is required", and every form with
\* a question and fewer than two non-blank answers (blank: empty,
\* whitespace only or missing) with "at least 2 answer options are
\* required", whatever the other fields hold.
C14_BlankFieldsRefused ==
    txn.op = "validate"
        => /\ Blank(editor.formData.quizQuestion)
                => txn.message = QuestionRequired
           /\ (~Blank(editor.formData.quizQuestion)
                /\ Supplied(editor.formData) < 2)
                => txn.message = AnswersRequired

\* a form with a padded question and one answer, the other fields empty,
\* whitespace only and missing, was refused for its answers
C14_Witness ==
    /\ txn.op = "validate"
    /\ editor.formData.quizQuestion = Str(<<" ", "Q?", " ">>)
    /\ editor.formData.answer1 = Str(<<" ">>)
    /\ editor.formData.answer2 = Text("B")
    /\ editor.formData.answer3 = Undefined
    /\ editor.formData.answer4 = EmptyString
    /\ txn.message = AnswersRequired

-----------------------------------------------------------------------------
(* Properties of the lesson sheet functions *)

\* the row of the sheet with the title the last call named
NamedRow == sheet[CHOOSE r \in 1..Len(sheet) : sheet[r][1] = loaded.lessonName]

DescriptionColumn(k) == 3 + 3 * k

UrlColumn(k) == 4 + 3 * k

ZonesColumn(k) == 5 + 3 * k

\* image slot k of a row has a description and a URL
Filled(row, k) ==
    row[DescriptionColumn(k)] # EmptyString /\ row[UrlColumn(k)] # EmptyString

\* the position, in the views of a row, of the view of its filled slot k
ViewOf(row, k) == Cardinality({j \in 0..(k - 1) : Filled(row, j)}) + 1

\* the sheet with '[]' in every zones cell that does not hold an array
Repaired(data) ==
    [r \in 1..Len(data) |->
        [c \in 1..Len(data[r]) |->
            IF data[r][c] \in CorruptCells /\ c >= 5 /\ c % 3 = 2
            THEN Str(<<"[", "]">>)
            ELSE data[r][c]]]

\* C19: when getLessonData loads a lesson, a view whose zones cell does
\* not parse, or parses to something that is not an array, comes back
\* with an empty zone list; every view comes back (one per slot that has
\* a description and a URL), and all of them are what they would be had
\* the corrupt cell held a valid empty list.
C19_CorruptCellIsEmptyList ==
    (/\ loaded.op = "getLessonData"
     /\ \E r \in 1..Len(sheet) : sheet[r][1] = loaded.lessonName)
        => /\ Len(loaded.views)
                = Cardinality({k \in 0..(MaxImages - 1) : Filled(NamedRow, k)})
           /\ \A k \in 0..(MaxImages - 1) :
                (Filled(NamedRow, k) /\ NamedRow[ZonesColumn(k)] \in CorruptCells)
                    => loaded.views[ViewOf(NamedRow, k)].zones = <<>>
           /\ loaded.views = getLessonData(Repaired(sheet), loaded.lessonName)

\* a lesson was loaded whose first image has a cut-off zones cell and
\* whose second image has a valid one: two views, the first without
\* zones, the second with its zone
C19_Witness ==
    /\ loaded.op = "getLessonData" /\ loaded.lessonName = BioTitle
    /\ sheet[2][ZonesColumn(0)] = CutOffCell
    /\ Len(loaded.views) = 2
    /\ loaded.views[1].zones = <<>>
    /\ Len(loaded.views[2].zones) = 1
    /\ StoredZone(loaded.views[2].zones[1]) = BannerZone

\* the zones of the view that the last load returned for the image that
\* was written last
ReturnedZones == loaded.views[ViewOf(NamedRow, written.imageIndex)].zones

\* the keys that are on a zone object of the editor
KeysOf(z) == {k \in DOMAIN z : Present(z, k)}

\* C20: a zone list that the editor serialized and updateLessonImage wrote
\* for an image of a lesson comes back from getLessonData, in the view of
\* that image, as an equal list: as many zones, in the same order, each
\* with the same keys and values (rationale: null of the correct answer
\* included).
C20_RoundTrip ==
    (/\ loaded.op = "getLessonData"
     /\ written.any
     /\ loaded.lessonName = written.lessonName)
        => /\ Len(ReturnedZones) = Len(written.zones)
           /\ \A i \in 1..Len(written.zones) :
                /\ ReturnedZones[i].t = "object"
                /\ DOMAIN ReturnedZones[i].o = KeysOf(written.zones[i])
                /\ StoredZone(ReturnedZones[i]) = written.zones[i]

\* a quiz zone and a banner zone were saved for the second image and
\* loaded again; the correct answer came back with the key rationale
\* holding null
C20_Witness ==
    /\ loaded.op = "getLessonData" /\ loaded.lessonName = BioTitle
    /\ written.any /\ written.lessonName = BioTitle
    /\ written.imageIndex = 1
    /\ written.zones = <<QuizZone, BannerZone>>
    /\ Len(ReturnedZones) = 2
    /\ "rationale" \in DOMAIN ReturnedZones[1].o.quizAnswers.a[1].o
    /\ ReturnedZones[1].o.quizAnswers.a[1].o.rationale = Null

\* the rows whose title is lessonName after trimming both
RowsTitled(data, lessonName) ==
    {r \in 1..Len(data) : Trim(toString(data[r][1]).s) = Trim(lessonName.s)}

\* the three columns of image k
ImageColumns(k) == {DescriptionColumn(k), UrlColumn(k), ZonesColumn(k)}

\* C21: a call of updateLessonImage succeeds exactly when a row carries
\* the lesson's title; a successful call for image k leaves the given
\* description, URL and zones text in columns 3+3k, 4+3k and 5+3k of that
\* row and every other cell of the sheet as it was (title and description
\* of the lesson, the cells of the other images, the rows of the other
\* lessons); a call that fails leaves the whole sheet as it was.
C21_WritesThreeCells ==
    [][loaded'.op = "updateLessonImage"
        => LET rows == RowsTitled(sheet, loaded'.lessonName)
               k == written'.imageIndex
           IN  /\ loaded'.success <=> rows # {}
               /\ ~loaded'.success => sheet' = sheet
               /\ loaded'.success =>
                    \E r \in rows :
                        /\ sheet'[r][DescriptionColumn(k)] = Text("New")
                        /\ sheet'[r][UrlColumn(k)] = DriveUrl
                        /\ sheet'[r][ZonesColumn(k)]
                                = JSONStringify(written'.zones)
                        /\ Len(sheet') = Len(sheet)
                        /\ \A q \in 1..Len(sheet) :
                                /\ Len(sheet'[q]) = Len(sheet[q])
                                /\ \A c \in 1..Len(sheet[q]) :
                                     (q # r \/ c \notin ImageColumns(k))
                                        => sheet'[q][c] = sheet[q][c]]_vars

\* the second image of a lesson whose first image slot is blank was
\* written: its three cells hold the new values, the first slot is still
\* blank and the title and description are as they were
C21_Witness ==
    /\ loaded.op = "updateLessonImage" /\ loaded.success
    /\ loaded.lessonName = BioTitle
    /\ written.imageIndex = 1
    /\ sheet[2][1] = BioTitle /\ sheet[2][2] = Text("About")
    /\ ~Filled(sheet[2], 0)
    /\ sheet[2][DescriptionColumn(1)] = Text("New")
    /\ sheet[2][UrlColumn(1)] = DriveUrl
    /\ sheet[2][ZonesColumn(1)] = JSONStringify(<<QuizZone, BannerZone>>)

-----------------------------------------------------------------------------
(* Properties of the banner branch *)

-----------------------------------------------------------------------------
(* Properties of the editor: rationales *)

\* the quiz zone that the last edit committed
CommittedQuiz == zones[txn.index]

\* C24: the rationale dialog is open only for a form whose opt-in was
\* checked; in a quiz zone that the editor has just committed the answer
\* at quizCorrectIndex exists and carries rationale null; with the opt-in
\* checked every other answer carries the rationale collected for it, and
\* with the opt-in unchecked every answer carries rationale null.
C24_CorrectAnswerHasNoRationale ==
    /\ editor.phase = "rationale" => editor.formData.showRationale
    /\ (txn.op = "edit" /\ txn.outcome = "committed" /\ txn.kind = "quiz") =>
        LET answers == CommittedQuiz.quizAnswers.a
            correct == IntOf(CommittedQuiz.quizCorrectIndex) + 1
        IN  /\ IsInteger(CommittedQuiz.quizCorrectIndex)
            /\ correct \in DOMAIN answers
            /\ answers[correct].rationale = Null
            /\ \A i \in DOMAIN answers \ {correct} :
                    answers[i].rationale
                        = IF CommittedQuiz.quizShowRationale = Bool(TRUE)
                          THEN Text("why") ELSE Null

\* a quiz of three answers was committed with the opt-in checked and its
\* second answer correct: the other two carry their rationales
C24_Witness ==
    /\ txn.op = "edit" /\ txn.outcome = "committed" /\ txn.kind = "quiz"
    /\ CommittedQuiz.quizShowRationale = Bool(TRUE)
    /\ CommittedQuiz.quizCorrectIndex = IntNum(1)
    /\ Len(CommittedQuiz.quizAnswers.a) = 3
    /\ CommittedQuiz.quizAnswers.a[1].rationale = Text("why")
    /\ CommittedQuiz.quizAnswers.a[2].rationale = Null
    /\ CommittedQuiz.quizAnswers.a[3].rationale = Text("why")

-----------------------------------------------------------------------------
(* Properties of the editor together with the click handler *)

\* the zone that the last edit committed has just been clicked
ClickedAfterCommit ==
    /\ lastEvent = "zoneClick"
    /\ txn.op = "edit" /\ txn.outcome = "committed"
    /\ zone = zones[txn.index]

\* C26: a click on a zone right after the editor committed an action for
\* it dispatches that action: a banner commit shows the banner with the
\* zone's text and position, a quiz commit opens a session on the zone's
\* question and answers, an image commit navigates to the stored index,
\* and a commit of no action advances sequentially; nothing is thrown and
\* no error is logged, whatever kind the zone had before the edit.
C26_EditorResolverAgree ==
    ClickedAfterCommit =>
        /\ ~thrown /\ errors = 0
        /\ CASE txn.kind = "banner" ->
                    /\ branch = "banner"
                    /\ calls = <<Call("showZoneBanner",
                                      <<zone.bannerText, zone.bannerPosition>>)>>
              [] txn.kind = "quiz" ->
                    /\ branch = "quiz"
                    /\ ~dom.modalHidden
                    /\ dom.question = zone.quizQuestion
                    /\ Len(dom.options) = Len(zone.quizAnswers.a)
              [] txn.kind = "targeted" ->
                    /\ branch = "targeted"
                    /\ IntOf(zone.targetView) \in 0..(viewCount - 1)
                    /\ calls = <<Call("navigateToView", <<zone.targetView>>)>>
              [] txn.kind = "none" ->
                    /\ branch = "sequential"
                    /\ calls = <<Call("zoomToNextView", <<>>)>>

\* a zone that was a quiz was set to no action and then clicked: the
\* lesson advanced
C26_Witness ==
    /\ ClickedAfterCommit
    /\ txn.kind = "none" /\ txn.priorKind = "quiz"
    /\ calls = <<Call("zoomToNextView", <<>>)>>

\* the kind of action that a branch of the click handler dispatches
KindOfBranch(b) == IF b = "sequential" THEN "none" ELSE b

\* C27: for every stored record, opening the zone for editing and
\* rendering the zones list never throw, and the kind they show is the
\* kind of the branch that a click on the record takes.
C27_EditorShowsWhatClickDoes ==
    /\ txn.op \in {"open", "list"} => txn.outcome # "thrown"
    /\ (txn.op \in {"open", "list"} /\ lastEvent = "zoneClick"
            /\ zone = zones[txn.index])
        => txn.kind = KindOfBranch(branch)

-----------------------------------------------------------------------------
(* Properties of the sheet: image indexes and view positions *)

\* C28: every image that getLessonForEditing returns for a lesson carries
\* an index that, used as a 0-based position in the views that
\* getLessonData returns for the same lesson, finds the view of the same
\* image: the same description and the same URL.
C28_IndexAddressesSameImage ==
    (loaded.op = "getLessonForEditing" /\ loaded.success) =>
        LET views == getLessonData(sheet, loaded.lessonName)
        IN  \A j \in 1..Len(loaded.views) :
                /\ loaded.views[j].index + 1 \in 1..Len(views)
                /\ views[loaded.views[j].index + 1].description
                        = loaded.views[j].description
                /\ views[loaded.views[j].index + 1].imageUrl
                        = loaded.views[j].url

-----------------------------------------------------------------------------
(* Properties of the quiz session: selection, marking, handlers *)

CheckedRows(d) == {i \in DOMAIN d.options : d.options[i].checked}

\* C22: while a session is Presented at most one option is selected, the
\* row that carries the 'selected' highlight is the row whose radio input
\* is checked, and after a click on a row or on its radio input exactly
\* one option is selected, so an earlier selection is gone.
C22_ExclusiveChoice ==
    Phase(dom) = "Presented" =>
        /\ Cardinality(CheckedRows(dom)) <= 1
        /\ SelectedRows(dom) = CheckedRows(dom)
        /\ lastEvent \in {"rowClick", "radioClick"}
                => Cardinality(SelectedRows(dom)) = 1

\* in a Presented session on three answers the last row was selected by
\* its radio input
C22_Witness ==
    /\ Phase(dom) = "Presented"
    /\ lastEvent = "radioClick"
    /\ Len(dom.options) = 3
    /\ SelectedRows(dom) = {3}
    /\ CheckedIndex(dom.options) = 2

CorrectRows(d) == {i \in DOMAIN d.options : d.options[i].correct}

IncorrectRows(d) == {i \in DOMAIN d.options : d.options[i].incorrect}

\* C23: after a submit that evaluated a selection on a zone whose correct
\* index names one of its answers, the rows marked correct are exactly the
\* row at the correct index, and the rows marked incorrect are exactly the
\* selected row when it is not the correct one (none otherwise); so no
\* row carries both marks.
C23_MarkingMatchesOutcome ==
    (Evaluated /\ HasCorrectAnswer(SessionZone)) =>
        /\ CorrectRows(dom) = {IntOf(SessionZone.quizCorrectIndex) + 1}
        /\ IncorrectRows(dom) = CheckedRows(dom) \ CorrectRows(dom)
        /\ CorrectRows(dom) \cap IncorrectRows(dom) = {}

\* a click on a quiz zone has just opened a session
SessionOpened == lastEvent = "zoneClick" /\ branch = "quiz" /\ ~thrown

\* C29: when a session opens, the submit and the continue button in the
\* document each carry one listener, the one of that session's zone,
\* however many sessions were opened before; no other event changes the
\* listeners; and a click on a button runs that one listener once: a
\* submit click adds at most one evaluation, and what it marks correct is
\* the row at the correct index of the current session's zone.
C29_OnlyCurrentHandlers ==
    [][/\ SessionOpened' =>
            /\ dom'.submit.listeners = <<Closure(zone')>>
            /\ dom'.close.listeners = <<Closure(zone')>>
       /\ ~SessionOpened' =>
            /\ dom'.submit.listeners = dom.submit.listeners
            /\ dom'.close.listeners = dom.close.listeners
       /\ lastEvent' \in {"submit", "close"} =>
            /\ Len(dom.submit.listeners) = 1
            /\ Len(dom.close.listeners) = 1
            /\ evals' <= evals + 1
            /\ \A i \in CorrectRows(dom') \ CorrectRows(dom) :
                    IntNum(i - 1) = dom.submit.listeners[1].quizCorrectIndex]_vars

\* a second session, opened after a session that ended with feedback,
\* has been submitted once on a three-answer zone: one evaluation
C29_Witness ==
    /\ Evaluated /\ ~thrown
    /\ prevOutcome # {}
    /\ evals = 1
    /\ Len(dom.options) = 3
    /\ Len(dom.submit.listeners) = 1

-----------------------------------------------------------------------------
(* Properties of createLesson *)

\* the rows that carry a lesson title
TitledRows(data) == {r \in 1..Len(data) : Truthy(data[r][1])}

\* no two rows carry titles that are equal after trimming
DistinctTitles(data) ==
    \A r, q \in TitledRows(data) :
        r # q => Trim(toString(data[r][1]).s) # Trim(toString(data[q][1]).s)

\* C30: a call of createLesson leaves the titles of the sheet pairwise
\* distinct after trimming; a call whose trimmed title is the trimmed
\* title of a row fails, adds no row and makes no folder; a call that
\* fails for any reason leaves the sheet as it was; and a call that
\* succeeds adds one row, below the others, with the title and the
\* description as given and nothing else, and all other rows as they were.
C30_TitlesStayDistinct ==
    [][loaded'.op = "createLesson" =>
          /\ DistinctTitles(sheet) => DistinctTitles(sheet')
          /\ (\E r \in TitledRows(sheet) :
                    Trim(toString(sheet[r][1]).s) = Trim(loaded'.lessonName.s))
                => /\ ~loaded'.success
                   /\ folders' = folders
          /\ ~loaded'.success => sheet' = sheet
          /\ loaded'.success =>
                /\ Len(sheet') = Len(sheet) + 1
                /\ SubSeq(sheet', 1, Len(sheet)) = sheet
                /\ sheet'[Len(sheet')][1] = loaded'.lessonName
                /\ sheet'[Len(sheet')][2] = Text("About")
                /\ \A c \in 3..Len(sheet'[Len(sheet')]) :
                        sheet'[Len(sheet')][c] = EmptyString]_vars

\* "Bio " was refused because " Bio" is in the sheet, after "Zoo" had been
\* added: two rows, one folder each
C30_Witness ==
    /\ loaded.op = "createLesson" /\ ~loaded.success
    /\ loaded.lessonName = Str(<<"Bio", " ">>)
    /\ Len(sheet) = 2
    /\ sheet[1][1] = BioTitle /\ sheet[2][1] = Text("Zoo")
    /\ folders = {BioTitle, Text("Zoo")}

============================================================================
